---- MODULE Spec2Model ----
(***************************************************************************)
(* Verification model of the evidence browser: the relationship graph      *)
(* builder (network_builder.py), the discovery engine                      *)
(* (discovery_engine.py) and the PostgreSQL-backed record store with its   *)
(* refresh path, caches and readers (db.py, wired as in server.py).        *)
(***************************************************************************)
EXTENDS Integers, Sequences, FiniteSets, TLC

VARIABLES
  \* network_builder.build_network: parsed inputs, the locals of a build in
  \* progress and the built graph
  contact_files, chat_files, builder, network,
  \* discovery_engine.scan_discoveries: the scanned export and the result
  cellebrite_data, discoveries,
  \* discovery_engine.scan_discoveries_from_db: the rows of table records with
  \* category chats of the scanned device
  chat_records,
  \* db.py: the export directory, the committed tables, the EvidenceDB
  \* fields and the position and locals of each thread
  fs, db, lock, pc, loc,
  merged_device_map, devices_cache, stats_cache, discoveries_cache, last_index_time,
  \* the number of changes made to the export directory so far, and the
  \* st_mtime each file had when it was last indexed
  edits, indexed,
  \* network_builder.normalize_name and match_primary: the argument of a call,
  \* and the result of each
  raw_name, normalized, resolved,
  \* db._parse_chats: a line of a chats export, and the record parsed from it
  chat_line, message,
  \* db._index_chat_threads: the lines of a chats export, and the rows it
  \* inserts into chat_threads and chat_messages
  chat_file, chat_threads,
  \* db.refresh on a chats export: the st_mtime of the file and its row in
  \* file_index
  chat_mtime, chat_index,
  \* the query API of db.py served on its own: the JSON files of AXIOM_DIR,
  \* the arguments of the last call and the value it returned
  axiom_dir, request, response,
  \* db._parse_emails and data_loader.parse_emails: the lines of an emails
  \* export, and what each parser made of them
  email_lines, email_records,
  \* auth.py: the tables users and sessions of auth.db, the clock, and the
  \* position of every call of AuthManager in progress
  auth

netVars == <<contact_files, chat_files, builder, network>>
discVars == <<cellebrite_data, discoveries, chat_records>>
caches == <<merged_device_map, devices_cache, stats_cache, discoveries_cache, last_index_time>>
dbVars == <<fs, db, lock, pc, loc, caches, edits, indexed>>
nameVars == <<raw_name, normalized, resolved>>
threadVars == <<chat_file, chat_threads, chat_mtime, chat_index>>
textVars == <<nameVars, chat_line, message, threadVars>>
queryVars == <<axiom_dir, request, response>>
emailVars == <<email_lines, email_records>>
moreVars == <<emailVars, auth>>
otherVars == <<netVars, discVars, textVars, queryVars, moreVars>>
vars == <<netVars, discVars, dbVars, textVars, queryVars, moreVars>>

None == "None"
\* a field that holds None, or a value
NoCache == <<>>
Cached(v) == <<v>>

\* no graph has been built yet
NoNetwork == [built |-> FALSE, nodes |-> <<>>, edges |-> <<>>]
\* no export is loaded, no scan has run yet
NoData == <<>>
NotScanned == <<>>

(***************************************************************************)
(* Text helpers: strings are sequences of one-character strings.           *)
(***************************************************************************)
UpperLetters == <<"A","B","C","D","E","F","G","H","I","J","K","L","M","N","O","P","Q","R","S","T","U","V","W","X","Y","Z">>
LowerLetters == <<"a","b","c","d","e","f","g","h","i","j","k","l","m","n","o","p","q","r","s","t","u","v","w","x","y","z">>
Digits == {"0","1","2","3","4","5","6","7","8","9"}

Range(s) == { s[i] : i \in DOMAIN s }

IsSpace(c) == c \in {" ", "\t", "\n"}

\* \w of the re module: letters, digits and the underscore
IsWordChar(c) == c \in Range(UpperLetters) \cup Range(LowerLetters) \cup Digits \cup {"_"}

ToLowerChar(c) ==
  IF \E i \in DOMAIN UpperLetters : UpperLetters[i] = c
  THEN LowerLetters[CHOOSE i \in DOMAIN UpperLetters : UpperLetters[i] = c]
  ELSE c

Lower(s) == [i \in DOMAIN s |-> ToLowerChar(s[i])]

RECURSIVE LStrip(_)
LStrip(s) == IF s # <<>> /\ IsSpace(Head(s)) THEN LStrip(Tail(s)) ELSE s

RECURSIVE RStrip(_)
RStrip(s) == IF s # <<>> /\ IsSpace(s[Len(s)]) THEN RStrip(SubSeq(s, 1, Len(s) - 1)) ELSE s

Strip(s) == RStrip(LStrip(s))

\* re.sub(r'[^\w\s]', '', s)
IsKeptChar(c) == IsWordChar(c) \/ IsSpace(c)
StripPunctuation(s) == SelectSeq(s, IsKeptChar)

\* re.sub(r'\s+', ' ', s)
RECURSIVE CollapseSpaces(_)
CollapseSpaces(s) ==
  IF s = <<>> THEN <<>>
  ELSE IF IsSpace(Head(s))
       THEN <<" ">> \o CollapseSpaces(LStrip(s))
       ELSE <<Head(s)>> \o CollapseSpaces(Tail(s))

\* str.split(): the maximal runs of non-space characters
RECURSIVE SplitWords(_, _)
SplitWords(s, cur) ==
  IF s = <<>> THEN (IF cur = <<>> THEN <<>> ELSE <<cur>>)
  ELSE IF IsSpace(Head(s))
       THEN (IF cur = <<>> THEN <<>> ELSE <<cur>>) \o SplitWords(Tail(s), <<>>)
       ELSE SplitWords(Tail(s), Append(cur, Head(s)))
Split(s) == SplitWords(s, <<>>)

\* Python's `p in s` on strings
IsSubstring(p, s) ==
  \E i \in 0..(Len(s) - Len(p)) : SubSeq(s, i + 1, i + Len(p)) = p

(***************************************************************************)
(* network_builder.py: curated tables                                      *)
(***************************************************************************)
PRIMARY_PEOPLE ==
  << [name |-> <<"T","i","n","a"," ","P","e","t","e","r","s">>, role |-> "defendant"],
     [name |-> <<"G","e","r","a","l","d"," ","W","o","o","d">>, role |-> "associate"],
     [name |-> <<"W","e","n","d","i"," ","W","o","o","d","s">>, role |-> "associate"],
     [name |-> <<"S","h","e","r","r","o","n","n","a"," ","B","i","s","h","o","p">>, role |-> "associate"],
     [name |-> <<"S","a","n","d","r","a"," ","B","r","o","w","n">>, role |-> "associate"],
     [name |-> <<"B","e","l","i","n","d","a"," ","K","n","i","s","l","e","y">>, role |-> "colleague"],
     [name |-> <<"J","o","y"," ","Q","u","i","n","n">>, role |-> "family"],
     [name |-> <<"Z","a","c","h","a","r","y"," ","Q","u","i","n","n">>, role |-> "family"],
     [name |-> <<"C","o","n","a","n"," ","H","a","y","e","s">>, role |-> "associate"] >>

NAME_ALIASES ==
  << [primary |-> <<"t","i","n","a"," ","p","e","t","e","r","s">>,
      aliases |-> << <<"t","i","n","a">>, <<"m","o","m">>, <<"t","i","n","a"," ","p">> >>],
     [primary |-> <<"w","e","n","d","i"," ","w","o","o","d","s">>,
      aliases |-> << <<"w","e","n","d","i">>, <<"w","e","n","d","i"," ","w","o","o","d">>, <<"w","e","n","d","y"," ","w","o","o","d","s">>, <<"w","e","n","d","y"," ","w","o","o","d">> >>],
     [primary |-> <<"j","o","y"," ","q","u","i","n","n">>,
      aliases |-> << <<"j","o","y">> >>],
     [primary |-> <<"z","a","c","h","a","r","y"," ","q","u","i","n","n">>,
      aliases |-> << <<"z","a","c","h","a","r","y">>, <<"z","a","c","h">>, <<"z","a","c","h"," ","q","u","i","n","n">> >>],
     [primary |-> <<"b","e","l","i","n","d","a"," ","k","n","i","s","l","e","y">>,
      aliases |-> << <<"b","e","l","i","n","d","a">> >>],
     [primary |-> <<"s","h","e","r","r","o","n","n","a"," ","b","i","s","h","o","p">>,
      aliases |-> << <<"s","h","e","r","r","o","n","n","a">> >>],
     [primary |-> <<"s","a","n","d","r","a"," ","b","r","o","w","n">>,
      aliases |-> << <<"s","a","n","d","r","a">>, <<"s","a","n","d","y","e"," ","b","r","o","w","n">>, <<"s","a","n","d","y","e">> >>],
     [primary |-> <<"g","e","r","a","l","d"," ","w","o","o","d">>,
      aliases |-> << <<"g","e","r","a","l","d">>, <<"j","e","r","r","y"," ","w","o","o","d">> >>],
     [primary |-> <<"c","o","n","a","n"," ","h","a","y","e","s">>,
      aliases |-> << <<"c","o","n","a","n">> >>] >>

DEVICE_PREFIXES ==
  << [prefix |-> "belinda-knisley", owner |-> <<"B","e","l","i","n","d","a"," ","K","n","i","s","l","e","y">>],
     [prefix |-> "joy-quinn", owner |-> <<"J","o","y"," ","Q","u","i","n","n">>],
     [prefix |-> "wendi-woods", owner |-> <<"W","e","n","d","i"," ","W","o","o","d","s">>],
     [prefix |-> "zachary-quinn", owner |-> <<"Z","a","c","h","a","r","y"," ","Q","u","i","n","n">>] >>

(***************************************************************************)
(* network_builder.py: name normalisation and matching                     *)
(***************************************************************************)
\* normalize_name without the .strip() that follows the second re.sub
CollapseUnstripped(name) ==
  IF name = <<>> THEN <<>>
  ELSE CollapseSpaces(StripPunctuation(Lower(Strip(name))))

normalize_name(name) ==
  IF name = <<>> THEN <<>>
  ELSE Strip(CollapseSpaces(StripPunctuation(Lower(Strip(name)))))

\* normalize_name(primary) for every key of PRIMARY_PEOPLE, in dict order
PRIMARY_NORM == [i \in DOMAIN PRIMARY_PEOPLE |-> normalize_name(PRIMARY_PEOPLE[i].name)]

MinOf(S) == CHOOSE x \in S : \A y \in S : x <= y

DirectHits(norm) == { i \in DOMAIN PRIMARY_PEOPLE : PRIMARY_NORM[i] = norm }

AliasHits(norm) ==
  { k \in DOMAIN NAME_ALIASES :
      /\ \E a \in DOMAIN NAME_ALIASES[k].aliases :
            \/ norm = NAME_ALIASES[k].aliases[a]
            \/ norm = normalize_name(NAME_ALIASES[k].aliases[a])
      /\ \E p \in DOMAIN PRIMARY_PEOPLE : PRIMARY_NORM[p] = NAME_ALIASES[k].primary }

\* the partial match with any(p in norm for p in parts)
PartialAnyToken(norm) ==
  { i \in DOMAIN PRIMARY_PEOPLE :
      LET parts == Split(PRIMARY_NORM[i]) IN
        /\ Len(parts) >= 2
        /\ ~(norm = parts[Len(parts)] /\ Len(parts[Len(parts)]) > 3)
        /\ \E p \in DOMAIN parts : IsSubstring(parts[p], norm) }

PartialHits(norm) ==
  { i \in DOMAIN PRIMARY_PEOPLE :
      LET parts == Split(PRIMARY_NORM[i]) IN
        /\ Len(parts) >= 2
        /\ ~(norm = parts[Len(parts)] /\ Len(parts[Len(parts)]) > 3)
        /\ \A p \in DOMAIN parts : IsSubstring(parts[p], norm) }

match_primary(name) ==
  LET norm == normalize_name(name) IN
  IF Len(norm) < 3 THEN None
  ELSE IF DirectHits(norm) # {} THEN PRIMARY_PEOPLE[MinOf(DirectHits(norm))].name
  ELSE IF AliasHits(norm) # {}
       THEN LET k == MinOf(AliasHits(norm))
            IN PRIMARY_PEOPLE[MinOf({ p \in DOMAIN PRIMARY_PEOPLE :
                                        PRIMARY_NORM[p] = NAME_ALIASES[k].primary })].name
  ELSE IF PartialHits(norm) # {} THEN PRIMARY_PEOPLE[MinOf(PartialHits(norm))].name
  ELSE None

\* hashlib.md5(normalize_name(name)).hexdigest()[:12]; the digest is kept
\* symbolic, one identifier per normalised name
make_id(name) == <<"md5", normalize_name(name)>>

(***************************************************************************)
(* Names the parsed inputs are drawn from                                  *)
(***************************************************************************)
JohnSmith == <<"J","o","h","n"," ","S","m","i","t","h">>

JohnSmithDot == <<"j","o","h","n"," "," ","s","m","i","t","h",".">>

JaneDoe == <<"J","a","n","e"," ","D","o","e">>

JoyQuinn == <<"J","o","y"," ","Q","u","i","n","n">>

Wendi == <<"W","e","n","d","i">>

WendiWoods == <<"W","e","n","d","i"," ","W","o","o","d","s">>

Redacted == <<"*","*","*","*">>

\* a name that parse_contacts keeps (two characters) and that normalises to
\* a single letter
JDot == <<"J",".">>

ContactPool == {JohnSmith, JohnSmithDot, JaneDoe, JoyQuinn, JDot}
ParticipantPool == {Wendi, WendiWoods, JoyQuinn, JohnSmith}

NameUniverse ==
  ContactPool \cup ParticipantPool
    \cup { PRIMARY_PEOPLE[i].name : i \in DOMAIN PRIMARY_PEOPLE }
    \cup { DEVICE_PREFIXES[i].owner : i \in DOMAIN DEVICE_PREFIXES }

\* normalize_name / match_primary / make_id tabulated over NameUniverse, so
\* that a graph build looks them up instead of re-scanning the tables
NormTable == [n \in NameUniverse |-> normalize_name(n)]
MatchTable == [n \in NameUniverse |-> match_primary(n)]
IdTable == [n \in NameUniverse |-> make_id(n)]
NormOf(n) == IF n \in NameUniverse THEN NormTable[n] ELSE normalize_name(n)
MatchOf(n) == IF n \in NameUniverse THEN MatchTable[n] ELSE match_primary(n)
IdOf(n) == IF n \in NameUniverse THEN IdTable[n] ELSE make_id(n)

(***************************************************************************)
(* network_builder.build_network                                           *)
(***************************************************************************)
\* edges = defaultdict(lambda: {"types": [], "weight": 0}); edge_order keeps
\* the dict's insertion order
EmptyEdge == [types |-> <<>>, weight |-> 0]
EdgeGet(g, key) == IF key \in DOMAIN g.edges THEN g.edges[key] ELSE EmptyEdge
EdgePut(g, key, e) ==
  [g EXCEPT !.edges = [k \in DOMAIN g.edges \cup {key} |->
                          IF k = key THEN e ELSE g.edges[k]],
            !.edge_order = IF key \in DOMAIN g.edges THEN @ ELSE Append(@, key)]

\* tuple(sorted([a, b])): an unordered pair, a singleton when a = b
EdgeKey(a, b) == {a, b}

SharedContact(n, devices) ==
  [type |-> "shared_contact", count |-> n, appears_on_devices |-> devices]
Chat(platform, n) ==
  [type |-> "chat", platform |-> platform, message_count |-> n]

FirstIndex(types, Test(_)) ==
  IF \E i \in DOMAIN types : Test(types[i])
  THEN MinOf({ i \in DOMAIN types : Test(types[i]) })
  ELSE 0
IsSharedContact(t) == t.type = "shared_contact"
IsChat(t) == t.type = "chat"

\* lines 290-304
PrimaryNodes ==
  [id \in { IdOf(PRIMARY_PEOPLE[i].name) : i \in DOMAIN PRIMARY_PEOPLE } |->
     LET i == CHOOSE i \in DOMAIN PRIMARY_PEOPLE : IdOf(PRIMARY_PEOPLE[i].name) = id
     IN [id |-> id, name |-> PRIMARY_PEOPLE[i].name, type |-> "primary",
         role |-> PRIMARY_PEOPLE[i].role, contact_count |-> 0, call_count |-> 0,
         message_count |-> 0, appears_on |-> {}]]

NodePut(g, id, node) ==
  [g EXCEPT !.nodes = [k \in DOMAIN g.nodes \cup {id} |->
                          IF k = id THEN node ELSE g.nodes[k]]]

InitialGraph ==
  [nodes |-> PrimaryNodes, edges |-> <<>>, edge_order |-> <<>>,
   contact_by_name |-> <<>>, contact_order |-> <<>>]

\* lines 322-339: a primary person found in another owner's contacts
PrimaryContactEdge(g, key, device_owner) ==
  LET e == EdgeGet(g, key)
      i == FirstIndex(e.types, IsSharedContact)
  IN EdgePut(g, key,
       [weight |-> e.weight + 1,
        types |-> IF i # 0
                  THEN [e.types EXCEPT ![i].count = @ + 1,
                                       ![i].appears_on_devices = @ \cup {device_owner}]
                  ELSE Append(e.types, SharedContact(1, {device_owner}))])

\* lines 340-344
TrackContact(g, norm, c) ==
  LET old == IF norm \in DOMAIN g.contact_by_name
             THEN g.contact_by_name[norm]
             ELSE [devices |-> {}, display_name |-> c.name]
      new == [devices |-> old.devices \cup {c.device_owner}, display_name |-> c.name]
  IN [g EXCEPT !.contact_by_name =
                  [k \in DOMAIN g.contact_by_name \cup {norm} |->
                     IF k = norm THEN new ELSE g.contact_by_name[k]],
               !.contact_order =
                  IF norm \in DOMAIN g.contact_by_name THEN @ ELSE Append(@, norm)]

\* lines 309-344: one iteration of `for c in all_contacts`
ProcessContact(g, c) ==
  LET norm == NormOf(c.name) IN
  IF Len(norm) < 2 THEN g
  ELSE LET primary == MatchOf(c.name) IN
       IF primary # None
       THEN LET nid == IdOf(primary)
                g1 == [g EXCEPT !.nodes[nid].appears_on = @ \cup {c.device_owner},
                                !.nodes[nid].contact_count = @ + 1]
                owner_primary == MatchOf(c.device_owner)
            IN IF owner_primary # None /\ owner_primary # primary
               THEN PrimaryContactEdge(g1, EdgeKey(IdOf(owner_primary), nid), c.device_owner)
               ELSE g1
       ELSE TrackContact(g, norm, c)

\* lines 365-378: the edge from a promoted contact to one device owner
SecondaryContactEdge(g, key, devices) ==
  LET e == EdgeGet(g, key)
      i == FirstIndex(e.types, IsSharedContact)
  IN EdgePut(g, key,
       [weight |-> e.weight + 1,
        types |-> IF i = 0 THEN Append(e.types, SharedContact(1, devices)) ELSE e.types])

RECURSIVE SecondaryOwnerEdges(_, _, _, _)
SecondaryOwnerEdges(g, nid, owners, devices) ==
  IF owners = {} THEN g
  ELSE LET device_owner == CHOOSE o \in owners : TRUE
           owner_primary == MatchOf(device_owner)
           g1 == IF owner_primary # None
                 THEN SecondaryContactEdge(g, EdgeKey(IdOf(owner_primary), nid), devices)
                 ELSE g
       IN SecondaryOwnerEdges(g1, nid, owners \ {device_owner}, devices)

\* step 3 without the `len(info["devices"]) >= 2` test
PromoteEveryContact(g, norm_name) ==
  LET info == g.contact_by_name[norm_name]
      nid == IdOf(info.display_name)
  IN SecondaryOwnerEdges(
       NodePut(g, nid, [id |-> nid, name |-> info.display_name, type |-> "secondary",
                        role |-> "contact", contact_count |-> Cardinality(info.devices),
                        call_count |-> 0, message_count |-> 0, appears_on |-> info.devices]),
       nid, info.devices, info.devices)

\* lines 347-378: one iteration of `for norm_name, info in contact_by_name.items()`
PromoteContact(g, norm_name) ==
  LET info == g.contact_by_name[norm_name] IN
  IF Cardinality(info.devices) >= 2
  THEN LET name == info.display_name
           nid == IdOf(name)
           g1 == IF nid \notin DOMAIN g.nodes
                 THEN NodePut(g, nid,
                        [id |-> nid, name |-> name, type |-> "secondary",
                         role |-> "contact", contact_count |-> Cardinality(info.devices),
                         call_count |-> 0, message_count |-> 0,
                         appears_on |-> info.devices])
                 ELSE g
       IN SecondaryOwnerEdges(g1, nid, info.devices, info.devices)
  ELSE g

\* lines 405-416 and 424-433: add a thread's messages to an edge; Test picks
\* the chat entry the messages are merged into
ChatEdge(g, key, thread, Test(_)) ==
  LET e == EdgeGet(g, key)
      i == FirstIndex(e.types, Test)
  IN EdgePut(g, key,
       [weight |-> e.weight + thread.message_count,
        types |-> IF i # 0
                  THEN [e.types EXCEPT ![i].message_count = @ + thread.message_count]
                  ELSE Append(e.types, Chat(thread.platform, thread.message_count))])

\* lines 396-454: one iteration of `for participant in thread["participants"]`
ProcessParticipant(g, thread, owner_primary, participant) ==
  LET owner_id == IdOf(owner_primary)
      primary == MatchOf(participant)
      IsChatOnPlatform(t) == t.type = "chat" /\ t.platform = thread.platform
  IN
  IF participant = <<>> \/ participant = Redacted THEN g
  ELSE IF primary # None /\ primary # owner_primary
  THEN LET target_id == IdOf(primary)
           g1 == [g EXCEPT !.nodes[target_id].message_count = @ + thread.message_count]
       IN ChatEdge(g1, EdgeKey(owner_id, target_id), thread, IsChatOnPlatform)
  ELSE LET target_id == IdOf(participant) IN
       IF target_id \in DOMAIN g.nodes
       THEN LET g1 == [g EXCEPT !.nodes[target_id].message_count =
                                     @ + thread.message_count]
            IN ChatEdge(g1, EdgeKey(owner_id, target_id), thread, IsChat)
       ELSE IF thread.message_count >= 5
       THEN LET g1 == NodePut(g, target_id,
                        [id |-> target_id, name |-> participant, type |-> "secondary",
                         role |-> "chat_contact", contact_count |-> 0, call_count |-> 0,
                         message_count |-> thread.message_count,
                         appears_on |-> {thread.device_owner}])
                e == EdgeGet(g1, EdgeKey(owner_id, target_id))
            IN EdgePut(g1, EdgeKey(owner_id, target_id),
                 [weight |-> e.weight + thread.message_count,
                  types |-> Append(e.types, Chat(thread.platform, thread.message_count))])
       ELSE g

RECURSIVE ProcessParticipants(_, _, _, _)
ProcessParticipants(g, thread, owner_primary, ps) ==
  IF ps = <<>> THEN g
  ELSE ProcessParticipants(ProcessParticipant(g, thread, owner_primary, Head(ps)),
                           thread, owner_primary, Tail(ps))

\* lines 389-454: one iteration of `for thread in all_chats`
ProcessThread(g, thread) ==
  LET owner_primary == MatchOf(thread.device_owner)
  IN IF owner_primary = None THEN g
     ELSE ProcessParticipants(g, thread, owner_primary, thread.participants)

\* lines 466-480: two device owners that share one contact name
CrossDeviceEdge(g, key, device_owners) ==
  LET e == EdgeGet(g, key)
      i == FirstIndex(e.types, IsSharedContact)
  IN IF i # 0
     THEN EdgePut(g, key, [weight |-> e.weight,
                           types |-> [e.types EXCEPT ![i].count = @ + 1]])
     ELSE EdgePut(g, key, [weight |-> e.weight + 1,
                           types |-> Append(e.types, SharedContact(1, device_owners))])

\* the pairs (i, j), i < j, of `device_owners`; the edges of distinct pairs
\* with two distinct primary owners are distinct, so their order is immaterial
OwnerPairs(devices) ==
  { pair \in SUBSET devices :
      /\ Cardinality(pair) = 2
      /\ \A d \in pair : MatchOf(d) # None
      /\ Cardinality({ MatchOf(d) : d \in pair }) = 2 }

RECURSIVE CrossDevicePairs(_, _, _)
CrossDevicePairs(g, pairs, device_owners) ==
  IF pairs = {} THEN g
  ELSE LET pair == CHOOSE q \in pairs : TRUE
           key == { IdOf(MatchOf(d)) : d \in pair }
       IN CrossDevicePairs(CrossDeviceEdge(g, key, device_owners),
                           pairs \ {pair}, device_owners)

\* lines 459-480: one iteration of `for norm_name, info in
\* contact_by_name.items()`
CrossDeviceContact(g, norm_name) ==
  LET info == g.contact_by_name[norm_name]
  IN IF Cardinality(info.devices) >= 2
     THEN CrossDevicePairs(g, OwnerPairs(info.devices), info.devices)
     ELSE g

\* edge_list.sort(key=weight, reverse=True): the sort is stable, so an edge
\* comes after the heavier ones and after the equally heavy ones before it
SortByWeight(es) ==
  LET rank(i) == Cardinality({ j \in DOMAIN es :
                                 \/ es[j].weight > es[i].weight
                                 \/ es[j].weight = es[i].weight /\ j <= i })
  IN [r \in DOMAIN es |-> es[CHOOSE i \in DOMAIN es : rank(i) = r]]

\* lines 496-504
EdgeList(g) ==
  LET kept == SelectSeq(g.edge_order, LAMBDA k : g.edges[k].weight > 0)
  IN [i \in DOMAIN kept |->
        [key |-> kept[i], types |-> g.edges[kept[i]].types,
         weight |-> g.edges[kept[i]].weight]]

\* parse_contacts / parse_chats output of every device, in DEVICE_PREFIXES order
RECURSIVE AllContacts(_, _)
AllContacts(files, i) ==
  IF i > Len(DEVICE_PREFIXES) THEN <<>>
  ELSE [k \in DOMAIN files[i] |->
          [name |-> files[i][k], device_owner |-> DEVICE_PREFIXES[i].owner]]
       \o AllContacts(files, i + 1)

RECURSIVE AllChats(_, _)
AllChats(files, i) ==
  IF i > Len(DEVICE_PREFIXES) THEN <<>>
  ELSE [k \in DOMAIN files[i] |->
          [device_owner |-> DEVICE_PREFIXES[i].owner,
           participants |-> files[i][k].participants,
           platform |-> files[i][k].platform,
           message_count |-> files[i][k].message_count]]
       \o AllChats(files, i + 1)

\* the locals of build_network outside a build
NoBuilder ==
  [stage |-> "idle", g |-> InitialGraph, contacts |-> <<>>, order |-> <<>>, chats |-> <<>>]

\* get_cached_network builds the graph once; lines 270-304: the exports are
\* parsed and the primary nodes added
build_network ==
  /\ builder.stage = "idle"
  /\ ~network.built
  /\ builder' = [stage |-> "contacts", g |-> InitialGraph,
                 contacts |-> AllContacts(contact_files, 1), order |-> <<>>,
                 chats |-> AllChats(chat_files, 1)]
  /\ UNCHANGED <<contact_files, chat_files, network, discVars, dbVars, textVars, queryVars, moreVars>>

\* lines 306-344: the loop over all_contacts
ProcessContacts ==
  /\ builder.stage = "contacts"
  /\ builder' = IF builder.contacts = <<>>
                THEN [builder EXCEPT !.stage = "promote", !.order = builder.g.contact_order]
                ELSE [builder EXCEPT !.g = ProcessContact(@, Head(builder.contacts)),
                                     !.contacts = Tail(@)]
  /\ UNCHANGED <<contact_files, chat_files, network, discVars, dbVars, textVars, queryVars, moreVars>>

\* lines 346-378: the loop over contact_by_name
PromoteContacts ==
  /\ builder.stage = "promote"
  /\ builder' = IF builder.order = <<>>
                THEN [builder EXCEPT !.stage = "chats"]
                ELSE [builder EXCEPT !.g = PromoteContact(@, Head(builder.order)),
                                     !.order = Tail(@)]
  /\ UNCHANGED <<contact_files, chat_files, network, discVars, dbVars, textVars, queryVars, moreVars>>

\* lines 388-454: the loop over all_chats
ProcessChats ==
  /\ builder.stage = "chats"
  /\ builder' = IF builder.chats = <<>>
                THEN [builder EXCEPT !.stage = "cross", !.order = builder.g.contact_order]
                ELSE [builder EXCEPT !.g = ProcessThread(@, Head(builder.chats)),
                                     !.chats = Tail(@)]
  /\ UNCHANGED <<contact_files, chat_files, network, discVars, dbVars, textVars, queryVars, moreVars>>

\* lines 456-480: the second loop over contact_by_name
CrossDeviceEdges ==
  /\ builder.stage = "cross"
  /\ builder' = IF builder.order = <<>>
                THEN [builder EXCEPT !.stage = "edges"]
                ELSE [builder EXCEPT !.g = CrossDeviceContact(@, Head(builder.order)),
                                     !.order = Tail(@)]
  /\ UNCHANGED <<contact_files, chat_files, network, discVars, dbVars, textVars, queryVars, moreVars>>

\* lines 495-512: the edge list is built and sorted, the graph returned
BuildEdgeList ==
  /\ builder.stage = "edges"
  /\ network' = [built |-> TRUE, nodes |-> builder.g.nodes,
                 edges |-> SortByWeight(EdgeList(builder.g))]
  /\ builder' = NoBuilder
  /\ UNCHANGED <<contact_files, chat_files, discVars, dbVars, textVars, queryVars, moreVars>>

(***************************************************************************)
(* discovery_engine.scan_discoveries                                       *)
(***************************************************************************)
KEY_TERMS ==
  << [term |-> "trusted build", flames |-> 3],
     [term |-> "Gold Hill", flames |-> 3],
     [term |-> "adjudication", flames |-> 3],
     [term |-> "Conan", flames |-> 3],
     [term |-> "Hayes", flames |-> 3],
     [term |-> "Griswold", flames |-> 3],
     [term |-> "ballot image", flames |-> 3],
     [term |-> "Dominion", flames |-> 2],
     [term |-> "MCUA", flames |-> 2],
     [term |-> "M.C.U.A", flames |-> 2],
     [term |-> "forensic image", flames |-> 2],
     [term |-> "election fraud", flames |-> 2],
     [term |-> "voting system", flames |-> 2],
     [term |-> "Secretary of State", flames |-> 2],
     [term |-> "Dominion Voting", flames |-> 2],
     [term |-> "election security", flames |-> 2],
     [term |-> "ballot", flames |-> 1],
     [term |-> "audit", flames |-> 1],
     [term |-> "tabulator", flames |-> 1],
     [term |-> "Mike Lindell", flames |-> 1],
     [term |-> "MyPillow", flames |-> 1],
     [term |-> "cyber symposium", flames |-> 1],
     [term |-> "Jessi Romero", flames |-> 1],
     [term |-> "Judd Choate", flames |-> 1] >>

CRITICAL_DATES ==
  << [date_str |-> "2021-05-23", label |-> "Trusted Build Weekend", flames |-> 3],
     [date_str |-> "2021-05-24", label |-> "Trusted Build Weekend", flames |-> 3],
     [date_str |-> "2021-05-25", label |-> "Trusted Build Day", flames |-> 3],
     [date_str |-> "2021-05-26", label |-> "Post Trusted Build", flames |-> 3],
     [date_str |-> "2021-08-10", label |-> "Second Scan / SOS Investigation Announced", flames |-> 3],
     [date_str |-> "2021-08-11", label |-> "Second Scan Day", flames |-> 3],
     [date_str |-> "2021-08-09", label |-> "SOS Investigation Announced", flames |-> 3],
     [date_str |-> "2021-08-12", label |-> "Post Second Scan", flames |-> 2],
     [date_str |-> "2021-07-29", label |-> "Mesa County Forensic Image Timing", flames |-> 2],
     [date_str |-> "2021-07-30", label |-> "Mesa County Forensic Image Timing", flames |-> 2] >>

VERIFIED_DISCOVERIES ==
  << [id |-> <<"verified", "", 1>>, category |-> "Cross-Device", flames |-> 3,
      device_id |-> "None", timestamp |-> "None", verified |-> TRUE,
      tags |-> <<"defense", "DHS", "risk assessment">>, data_type |-> "None",
      content |-> <<"verified">>],
     [id |-> <<"verified", "", 2>>, category |-> "Communications", flames |-> 3,
      device_id |-> "wendi-woods", timestamp |-> "2021-08-06T21:07:24+00:00", verified |-> TRUE,
      tags |-> <<"Signal", "MCUA", "encrypted">>, data_type |-> "None",
      content |-> <<"verified">>],
     [id |-> <<"verified", "", 3>>, category |-> "Communications", flames |-> 2,
      device_id |-> "None", timestamp |-> "None", verified |-> TRUE,
      tags |-> <<"Dominion", "trusted build", "email">>, data_type |-> "None",
      content |-> <<"verified">>],
     [id |-> <<"verified", "", 4>>, category |-> "Communications", flames |-> 2,
      device_id |-> "belinda-knisley", timestamp |-> "None", verified |-> TRUE,
      tags |-> <<"Dominion", "email", "Belinda Knisley">>, data_type |-> "None",
      content |-> <<"verified">>],
     [id |-> <<"verified", "", 5>>, category |-> "Cross-Device", flames |-> 3,
      device_id |-> "None", timestamp |-> "None", verified |-> TRUE,
      tags |-> <<"FBI", "GrayKey", "Signal", "Telegram">>, data_type |-> "None",
      content |-> <<"verified">>],
     [id |-> <<"verified", "", 6>>, category |-> "Cross-Device", flames |-> 2,
      device_id |-> "joy-quinn", timestamp |-> "None", verified |-> TRUE,
      tags |-> <<"Joy Quinn", "date filter", "critical period">>, data_type |-> "None",
      content |-> <<"verified">>] >>

\* the characters of every string the scan reads
Chars ==
  ("### " :> <<"#", "#", "#", " ">>) @@
  ("**From:**" :> <<"*", "*", "F", "r", "o", "m", ":", "*", "*">>) @@
  ("**To:**" :> <<"*", "*", "T", "o", ":", "*", "*">>) @@
  ("**Source:**" :> <<"*", "*", "S", "o", "u", "r", "c", "e", ":", "*", "*">>) @@
  ("---" :> <<"-", "-", "-">>) @@
  ("### 2021-08-23 " :> <<"#", "#", "#", " ", "2", "0", "2", "1", "-", "0", "8", "-", "2", "3", " ">>) @@
  (" A" :> <<" ", "A">>) @@
  ("### 2021-08-24 " :> <<"#", "#", "#", " ", "2", "0", "2", "1", "-", "0", "8", "-", "2", "4", " ">>) @@
  (" B" :> <<" ", "B">>) @@
  ("**From:** a@x " :> <<"*", "*", "F", "r", "o", "m", ":", "*", "*", " ", "a", "@", "x", " ">>) @@
  (" **To:** b@x" :> <<" ", "*", "*", "T", "o", ":", "*", "*", " ", "b", "@", "x">>) @@
  ("**From:** c@x" :> <<"*", "*", "F", "r", "o", "m", ":", "*", "*", " ", "c", "@", "x">>) @@
  ("**Source:** Mail" :> <<"*", "*", "S", "o", "u", "r", "c", "e", ":", "*", "*", " ", "M", "a", "i", "l">>) @@
  ("<b>hi</b>" :> <<"<", "b", ">", "h", "i", "<", "/", "b", ">">>) @@
  ("2021-08-23" :> <<"2", "0", "2", "1", "-", "0", "8", "-", "2", "3">>) @@
  ("2021-08-24" :> <<"2", "0", "2", "1", "-", "0", "8", "-", "2", "4">>) @@
  ("A" :> <<"A">>) @@
  ("B" :> <<"B">>) @@
  ("a@x" :> <<"a", "@", "x">>) @@
  ("b@x" :> <<"b", "@", "x">>) @@
  ("Mail" :> <<"M", "a", "i", "l">>) @@
  ("### Chat: " :> <<"#", "#", "#", " ", "C", "h", "a", "t", ":", " ">>) @@
  ("**Started:** " :> <<"*", "*", "S", "t", "a", "r", "t", "e", "d", ":", "*", "*", " ">>) @@
  ("Unknown" :> <<"U", "n", "k", "n", "o", "w", "n">>) @@
  ("### Chat: Signal" :> <<"#", "#", "#", " ", "C", "h", "a", "t", ":", " ", "S", "i", "g", "n", "a", "l">>) @@
  ("### Chat: SMS" :> <<"#", "#", "#", " ", "C", "h", "a", "t", ":", " ", "S", "M", "S">>) @@
  ("**Started:** 2021-08-06T10:00:00" :> <<"*", "*", "S", "t", "a", "r", "t", "e", "d", ":", "*", "*", " ", "2", "0", "2", "1", "-", "0", "8", "-", "0", "6", "T", "1", "0", ":", "0", "0", ":", "0", "0">>) @@
  ("- [2021-08-06T10:00:00] **Wendi**: hi (Signal)" :> <<"-", " ", "[", "2", "0", "2", "1", "-", "0", "8", "-", "0", "6", "T", "1", "0", ":", "0", "0", ":", "0", "0", "]", " ", "*", "*", "W", "e", "n", "d", "i", "*", "*", ":", " ", "h", "i", " ", "(", "S", "i", "g", "n", "a", "l", ")">>) @@
  ("- [2021-08-06T10:05:00] **Wendi**: hi" :> <<"-", " ", "[", "2", "0", "2", "1", "-", "0", "8", "-", "0", "6", "T", "1", "0", ":", "0", "5", ":", "0", "0", "]", " ", "*", "*", "W", "e", "n", "d", "i", "*", "*", ":", " ", "h", "i">>) @@
  ("- [2021-08-06T10:07:00] **Joy**: ok (SMS)" :> <<"-", " ", "[", "2", "0", "2", "1", "-", "0", "8", "-", "0", "6", "T", "1", "0", ":", "0", "7", ":", "0", "0", "]", " ", "*", "*", "J", "o", "y", "*", "*", ":", " ", "o", "k", " ", "(", "S", "M", "S", ")">>) @@
  ("Signal" :> <<"S", "i", "g", "n", "a", "l">>) @@
  ("SMS" :> <<"S", "M", "S">>) @@
  ("2021-05-23T00:00:00" :> <<"2", "0", "2", "1", "-", "0", "5", "-", "2", "3", "T", "0", "0", ":", "0", "0", ":", "0", "0">>) @@
  ("2021-05-24T00:00:00" :> <<"2", "0", "2", "1", "-", "0", "5", "-", "2", "4", "T", "0", "0", ":", "0", "0", ":", "0", "0">>) @@
  ("2021-05-25T00:00:00" :> <<"2", "0", "2", "1", "-", "0", "5", "-", "2", "5", "T", "0", "0", ":", "0", "0", ":", "0", "0">>) @@
  ("2021-05-26T00:00:00" :> <<"2", "0", "2", "1", "-", "0", "5", "-", "2", "6", "T", "0", "0", ":", "0", "0", ":", "0", "0">>) @@
  ("2021-08-10T00:00:00" :> <<"2", "0", "2", "1", "-", "0", "8", "-", "1", "0", "T", "0", "0", ":", "0", "0", ":", "0", "0">>) @@
  ("2021-08-11T00:00:00" :> <<"2", "0", "2", "1", "-", "0", "8", "-", "1", "1", "T", "0", "0", ":", "0", "0", ":", "0", "0">>) @@
  ("2021-08-09T00:00:00" :> <<"2", "0", "2", "1", "-", "0", "8", "-", "0", "9", "T", "0", "0", ":", "0", "0", ":", "0", "0">>) @@
  ("2021-07-29T00:00:00" :> <<"2", "0", "2", "1", "-", "0", "7", "-", "2", "9", "T", "0", "0", ":", "0", "0", ":", "0", "0">>) @@
  ("2021-07-30T00:00:00" :> <<"2", "0", "2", "1", "-", "0", "7", "-", "3", "0", "T", "0", "0", ":", "0", "0", ":", "0", "0">>) @@
  ("Wendi Woods" :> <<"W", "e", "n", "d", "i", " ", "W", "o", "o", "d", "s">>) @@
  (" WENDI  woods. " :> <<" ", "W", "E", "N", "D", "I", " ", " ", "w", "o", "o", "d", "s", ".", " ">>) @@
  ("Mom" :> <<"M", "o", "m">>) @@
  ("Joy" :> <<"J", "o", "y">>) @@
  ("Zach Quinn" :> <<"Z", "a", "c", "h", " ", "Q", "u", "i", "n", "n">>) @@
  ("Jerry Wood" :> <<"J", "e", "r", "r", "y", " ", "W", "o", "o", "d">>) @@
  ("Wendi Wood" :> <<"W", "e", "n", "d", "i", " ", "W", "o", "o", "d">>) @@
  ("Dr. Tina M Peters" :> <<"D", "r", ".", " ", "T", "i", "n", "a", " ", "M", " ", "P", "e", "t", "e", "r", "s">>) @@
  ("Tina Peterson" :> <<"T", "i", "n", "a", " ", "P", "e", "t", "e", "r", "s", "o", "n">>) @@
  ("Gerald Woods" :> <<"G", "e", "r", "a", "l", "d", " ", "W", "o", "o", "d", "s">>) @@
  ("Peters, Tina" :> <<"P", "e", "t", "e", "r", "s", ",", " ", "T", "i", "n", "a">>) @@
  ("Joy Smith" :> <<"J", "o", "y", " ", "S", "m", "i", "t", "h">>) @@
  ("Jo" :> <<"J", "o">>) @@
  ("tina peterson" :> <<"t", "i", "n", "a", " ", "p", "e", "t", "e", "r", "s", "o", "n">>) @@
  ("trusted build" :> <<"t", "r", "u", "s", "t", "e", "d", " ", "b", "u", "i", "l", "d">>) @@
  ("Gold Hill" :> <<"G", "o", "l", "d", " ", "H", "i", "l", "l">>) @@
  ("adjudication" :> <<"a", "d", "j", "u", "d", "i", "c", "a", "t", "i", "o", "n">>) @@
  ("Conan" :> <<"C", "o", "n", "a", "n">>) @@
  ("Hayes" :> <<"H", "a", "y", "e", "s">>) @@
  ("Griswold" :> <<"G", "r", "i", "s", "w", "o", "l", "d">>) @@
  ("ballot image" :> <<"b", "a", "l", "l", "o", "t", " ", "i", "m", "a", "g", "e">>) @@
  ("Dominion" :> <<"D", "o", "m", "i", "n", "i", "o", "n">>) @@
  ("MCUA" :> <<"M", "C", "U", "A">>) @@
  ("M.C.U.A" :> <<"M", ".", "C", ".", "U", ".", "A">>) @@
  ("forensic image" :> <<"f", "o", "r", "e", "n", "s", "i", "c", " ", "i", "m", "a", "g", "e">>) @@
  ("election fraud" :> <<"e", "l", "e", "c", "t", "i", "o", "n", " ", "f", "r", "a", "u", "d">>) @@
  ("voting system" :> <<"v", "o", "t", "i", "n", "g", " ", "s", "y", "s", "t", "e", "m">>) @@
  ("Secretary of State" :> <<"S", "e", "c", "r", "e", "t", "a", "r", "y", " ", "o", "f", " ", "S", "t", "a", "t", "e">>) @@
  ("Dominion Voting" :> <<"D", "o", "m", "i", "n", "i", "o", "n", " ", "V", "o", "t", "i", "n", "g">>) @@
  ("election security" :> <<"e", "l", "e", "c", "t", "i", "o", "n", " ", "s", "e", "c", "u", "r", "i", "t", "y">>) @@
  ("ballot" :> <<"b", "a", "l", "l", "o", "t">>) @@
  ("audit" :> <<"a", "u", "d", "i", "t">>) @@
  ("tabulator" :> <<"t", "a", "b", "u", "l", "a", "t", "o", "r">>) @@
  ("Mike Lindell" :> <<"M", "i", "k", "e", " ", "L", "i", "n", "d", "e", "l", "l">>) @@
  ("MyPillow" :> <<"M", "y", "P", "i", "l", "l", "o", "w">>) @@
  ("cyber symposium" :> <<"c", "y", "b", "e", "r", " ", "s", "y", "m", "p", "o", "s", "i", "u", "m">>) @@
  ("Jessi Romero" :> <<"J", "e", "s", "s", "i", " ", "R", "o", "m", "e", "r", "o">>) @@
  ("Judd Choate" :> <<"J", "u", "d", "d", " ", "C", "h", "o", "a", "t", "e">>) @@
  ("2021-05-23" :> <<"2", "0", "2", "1", "-", "0", "5", "-", "2", "3">>) @@
  ("2021-05-24" :> <<"2", "0", "2", "1", "-", "0", "5", "-", "2", "4">>) @@
  ("2021-05-25" :> <<"2", "0", "2", "1", "-", "0", "5", "-", "2", "5">>) @@
  ("2021-05-26" :> <<"2", "0", "2", "1", "-", "0", "5", "-", "2", "6">>) @@
  ("2021-08-10" :> <<"2", "0", "2", "1", "-", "0", "8", "-", "1", "0">>) @@
  ("2021-08-11" :> <<"2", "0", "2", "1", "-", "0", "8", "-", "1", "1">>) @@
  ("2021-08-09" :> <<"2", "0", "2", "1", "-", "0", "8", "-", "0", "9">>) @@
  ("2021-08-12" :> <<"2", "0", "2", "1", "-", "0", "8", "-", "1", "2">>) @@
  ("2021-07-29" :> <<"2", "0", "2", "1", "-", "0", "7", "-", "2", "9">>) @@
  ("2021-07-30" :> <<"2", "0", "2", "1", "-", "0", "7", "-", "3", "0">>) @@
  ("how to delete" :> <<"h", "o", "w", " ", "t", "o", " ", "d", "e", "l", "e", "t", "e">>) @@
  ("clear history" :> <<"c", "l", "e", "a", "r", " ", "h", "i", "s", "t", "o", "r", "y">>) @@
  ("delete messages" :> <<"d", "e", "l", "e", "t", "e", " ", "m", "e", "s", "s", "a", "g", "e", "s">>) @@
  ("factory reset" :> <<"f", "a", "c", "t", "o", "r", "y", " ", "r", "e", "s", "e", "t">>) @@
  ("wipe" :> <<"w", "i", "p", "e">>) @@
  ("erase" :> <<"e", "r", "a", "s", "e">>) @@
  ("remove evidence" :> <<"r", "e", "m", "o", "v", "e", " ", "e", "v", "i", "d", "e", "n", "c", "e">>) @@
  ("signal" :> <<"s", "i", "g", "n", "a", "l">>) @@
  ("telegram" :> <<"t", "e", "l", "e", "g", "r", "a", "m">>) @@
  ("Dominion audit" :> <<"D", "o", "m", "i", "n", "i", "o", "n", " ", "a", "u", "d", "i", "t">>) @@
  ("ballot audit" :> <<"b", "a", "l", "l", "o", "t", " ", "a", "u", "d", "i", "t">>) @@
  ("hi" :> <<"h", "i">>) @@
  ("the trusted build is Tuesday" :> <<"t", "h", "e", " ", "t", "r", "u", "s", "t", "e", "d", " ", "b", "u", "i", "l", "d", " ", "i", "s", " ", "T", "u", "e", "s", "d", "a", "y">>) @@
  ("dominion voting system ballot audit wipe" :> <<"d", "o", "m", "i", "n", "i", "o", "n", " ", "v", "o", "t", "i", "n", "g", " ", "s", "y", "s", "t", "e", "m", " ", "b", "a", "l", "l", "o", "t", " ", "a", "u", "d", "i", "t", " ", "w", "i", "p", "e">>) @@
  ("how to delete signal messages" :> <<"h", "o", "w", " ", "t", "o", " ", "d", "e", "l", "e", "t", "e", " ", "s", "i", "g", "n", "a", "l", " ", "m", "e", "s", "s", "a", "g", "e", "s">>) @@
  ("weather" :> <<"w", "e", "a", "t", "h", "e", "r">>) @@
  ("wiper blades" :> <<"w", "i", "p", "e", "r", " ", "b", "l", "a", "d", "e", "s">>) @@
  ("2021-05-25T10:00:00" :> <<"2", "0", "2", "1", "-", "0", "5", "-", "2", "5", "T", "1", "0", ":", "0", "0", ":", "0", "0">>) @@
  ("2021-08-12T09:30:00" :> <<"2", "0", "2", "1", "-", "0", "8", "-", "1", "2", "T", "0", "9", ":", "3", "0", ":", "0", "0">>) @@
  ("2020-01-01T00:00:00" :> <<"2", "0", "2", "0", "-", "0", "1", "-", "0", "1", "T", "0", "0", ":", "0", "0", ":", "0", "0">>) @@
  ("Tina Peters" :> <<"T", "i", "n", "a", " ", "P", "e", "t", "e", "r", "s">>) @@
  ("Tina" :> <<"T", "i", "n", "a">>) @@
  ("Wendi" :> <<"W", "e", "n", "d", "i">>) @@
  ("Woods" :> <<"W", "o", "o", "d", "s">>) @@
  ("Gerald Wood" :> <<"G", "e", "r", "a", "l", "d", " ", "W", "o", "o", "d">>) @@
  ("Sherronna" :> <<"S", "h", "e", "r", "r", "o", "n", "n", "a">>) @@
  ("Bishop" :> <<"B", "i", "s", "h", "o", "p">>) @@
  ("Sandra Brown" :> <<"S", "a", "n", "d", "r", "a", " ", "B", "r", "o", "w", "n">>) @@
  ("Sandye" :> <<"S", "a", "n", "d", "y", "e">>) @@
  ("Belinda" :> <<"B", "e", "l", "i", "n", "d", "a">>) @@
  ("Knisley" :> <<"K", "n", "i", "s", "l", "e", "y">>) @@
  ("Joy Quinn" :> <<"J", "o", "y", " ", "Q", "u", "i", "n", "n">>) @@
  ("Zachary" :> <<"Z", "a", "c", "h", "a", "r", "y">>) @@
  ("John Smith" :> <<"J", "o", "h", "n", " ", "S", "m", "i", "t", "h">>) @@
  ("Wendi W" :> <<"W", "e", "n", "d", "i", " ", "W">>) @@
  ("me@example.com" :> <<"m", "e", "@", "e", "x", "a", "m", "p", "l", "e", ".", "c", "o", "m">>) @@
  ("example.com/dominion" :> <<"e", "x", "a", "m", "p", "l", "e", ".", "c", "o", "m", "/", "d", "o", "m", "i", "n", "i", "o", "n">>) @@
  ("example.com" :> <<"e", "x", "a", "m", "p", "l", "e", ".", "c", "o", "m">>) @@
  ("2021-07-31T23:59:59" :> <<"2", "0", "2", "1", "-", "0", "7", "-", "3", "1", "T", "2", "3", ":", "5", "9", ":", "5", "9">>) @@
  ("2021-08-01T00:00:00" :> <<"2", "0", "2", "1", "-", "0", "8", "-", "0", "1", "T", "0", "0", ":", "0", "0", ":", "0", "0">>) @@
  ("2021-08-11T12:00:00" :> <<"2", "0", "2", "1", "-", "0", "8", "-", "1", "1", "T", "1", "2", ":", "0", "0", ":", "0", "0">>) @@
  ("2021-08-11T23:59:59+00:00" :> <<"2", "0", "2", "1", "-", "0", "8", "-", "1", "1", "T", "2", "3", ":", "5", "9", ":", "5", "9", "+", "0", "0", ":", "0", "0">>) @@
  ("2021-08-12T00:00:00" :> <<"2", "0", "2", "1", "-", "0", "8", "-", "1", "2", "T", "0", "0", ":", "0", "0", ":", "0", "0">>) @@
  ("2021-08-11T23:59:59" :> <<"2", "0", "2", "1", "-", "0", "8", "-", "1", "1", "T", "2", "3", ":", "5", "9", ":", "5", "9">>) @@
  ("2021-08-01" :> <<"2", "0", "2", "1", "-", "0", "8", "-", "0", "1">>) @@
  ("2021-08-06T21:07:24+00:00" :> <<"2", "0", "2", "1", "-", "0", "8", "-", "0", "6", "T", "2", "1", ":", "0", "7", ":", "2", "4", "+", "0", "0", ":", "0", "0">>) @@
  ("RMR034359_White iPhone SE" :> <<"R", "M", "R", "0", "3", "4", "3", "5", "9", "_", "W", "h", "i", "t", "e", " ", "i", "P", "h", "o", "n", "e", " ", "S", "E">>) @@
  ("RMR034359_White iPhone SE_TaintClear" :> <<"R", "M", "R", "0", "3", "4", "3", "5", "9", "_", "W", "h", "i", "t", "e", " ", "i", "P", "h", "o", "n", "e", " ", "S", "E", "_", "T", "a", "i", "n", "t", "C", "l", "e", "a", "r">>) @@
  ("smith" :> <<"s", "m", "i", "t", "h">>) @@
  ("white" :> <<"w", "h", "i", "t", "e">>) @@
  ("Jane Doe" :> <<"J", "a", "n", "e", " ", "D", "o", "e">>) @@
  ("" :> <<>>)

\* the device whose chats and searches are scanned
ScanDevice == "wendi-woods"

KEY_PEOPLE ==
  <<"Tina Peters", "Tina", "Wendi", "Woods", "Gerald Wood", "Sherronna", "Bishop",
    "Sandra Brown", "Sandye", "Belinda", "Knisley", "Joy Quinn", "Zachary">>

\* f"{n}": the decimal digits of a count
Str(n) == <<"0", "1", "2", "3", "4", "5", "6", "7", "8", "9">>[n + 1]

SUSPICIOUS_PHRASES == <<"how to delete", "clear history", "delete messages", "factory reset">>
SUSPICIOUS_WORDS == <<"wipe", "erase", "remove evidence">>

Truthy(s) == s # None /\ s # ""
StartsWith(s, p) == Len(s) >= Len(p) /\ SubSeq(s, 1, Len(p)) = p
Prefix(s, n) == SubSeq(s, 1, IF Len(s) < n THEN Len(s) ELSE n)

\* re.search(r'\b' + re.escape(w) + r'\b', s) for a w that starts and ends
\* with a word character
WordSearch(w, s) ==
  \E i \in 0..(Len(s) - Len(w)) :
    /\ SubSeq(s, i + 1, i + Len(w)) = w
    /\ i = 0 \/ ~IsWordChar(s[i])
    /\ i + Len(w) = Len(s) \/ ~IsWordChar(s[i + Len(w) + 1])

Terms(hits) == [i \in DOMAIN hits |-> hits[i].term]
MaxFlames(hits) ==
  IF hits = <<>> THEN 0
  ELSE CHOOSE f \in { hits[i].flames : i \in DOMAIN hits } :
         \A i \in DOMAIN hits : hits[i].flames <= f
Max2(a, b) == IF a >= b THEN a ELSE b

\* for term, flames in KEY_TERMS.items(): if term.lower() in text
KeyTermHits(text) ==
  SelectSeq(KEY_TERMS, LAMBDA kt : IsSubstring(Lower(Chars[kt.term]), text))

\* disc_id += 1; discoveries.append({"id": f"<kind>-{device_id}-{disc_id}", ...})
Emit(st, kind, d) ==
  [st EXCEPT !.disc_id = @ + 1,
             !.discoveries = Append(@, [d EXCEPT !.id = <<kind, st.device_id, st.disc_id + 1>>,
                                                 !.device_id = st.device_id])]

Discovery(category, flames, ts, tags, data_type, content) ==
  [id |-> <<>>, category |-> category, flames |-> flames, device_id |-> None,
   timestamp |-> ts, verified |-> FALSE, tags |-> tags, data_type |-> data_type,
   content |-> content]

\* lines 165-181: for date_str, (label, flames) in CRITICAL_DATES.items()
RECURSIVE ChatDates(_, _, _)
ChatDates(st, msg, dates) ==
  IF dates = <<>> THEN st
  ELSE LET cd == Head(dates)
           ts == msg.timestamp
           st1 == IF Truthy(ts) /\ StartsWith(Chars[ts], Chars[cd.date_str])
                  THEN Emit(st, "date",
                            Discovery("Communications", cd.flames, ts,
                                      <<cd.label, cd.date_str>>, "chats", <<msg.body>>))
                  ELSE st
       IN ChatDates(st1, msg, Tail(dates))

\* lines 129-181: one iteration of `for msg in chats`
ScanChat(st, msg) ==
  LET body == Chars[msg.body]
      hits == SelectSeq(KEY_TERMS, LAMBDA kt :
                /\ IsSubstring(Lower(Chars[kt.term]), Lower(body))
                /\ ~(/\ Lower(Chars[kt.term]) \in {Chars["signal"], Chars["telegram"]}
                     /\ Len(body) < 30))
      st1 == IF hits # <<>> /\ MaxFlames(hits) >= 2
             THEN Emit(st, "chat",
                       Discovery("Communications", MaxFlames(hits), msg.timestamp,
                                 Prefix(Terms(hits), 5), "chats", <<msg.body>>))
             ELSE st
  IN IF Len(body) < 5 THEN st
     ELSE ChatDates(st1, msg, CRITICAL_DATES)

RECURSIVE ScanChats(_, _)
ScanChats(st, chats) ==
  IF chats = <<>> THEN st ELSE ScanChats(ScanChat(st, Head(chats)), Tail(chats))

\* lines 215-254: one iteration of `for s in searches`
ScanSearch(st, s) ==
  LET q_lower == Lower(Chars[s.query])
      hits == KeyTermHits(q_lower)
      phrases == SelectSeq(SUSPICIOUS_PHRASES, LAMBDA p : IsSubstring(Chars[p], q_lower))
      words == SelectSeq(SUSPICIOUS_WORDS, LAMBDA w : WordSearch(Chars[w], q_lower))
      matched == Terms(hits) \o phrases \o words
      max_flames == IF phrases \o words # <<>> THEN Max2(MaxFlames(hits), 3)
                    ELSE MaxFlames(hits)
  IN IF matched # <<>>
     THEN Emit(st, "search",
               Discovery("Searches", max_flames, s.timestamp, Prefix(matched, 5), "searches",
                         <<"Search query: ", s.query>>))
     ELSE st

RECURSIVE ScanSearches(_, _)
ScanSearches(st, searches) ==
  IF searches = <<>> THEN st ELSE ScanSearches(ScanSearch(st, Head(searches)), Tail(searches))

\* _deduplicate: the key of a chat discovery is device, day and its sorted
\* tags (the tags of one discovery are distinct, so their set stands for the
\* sorted list)
RECURSIVE Deduplicate(_, _, _)
Deduplicate(ds, seen, result) ==
  IF ds = <<>> THEN result
  ELSE LET d == Head(ds) IN
       IF d.verified THEN Deduplicate(Tail(ds), seen, Append(result, d))
       ELSE IF d.data_type = "chats" /\ Truthy(d.timestamp)
       THEN LET key == [device_id |-> d.device_id,
                        date |-> Prefix(Chars[d.timestamp], 10),
                        tags |-> Range(d.tags)]
            IN IF key \in seen THEN Deduplicate(Tail(ds), seen, result)
               ELSE Deduplicate(Tail(ds), seen \cup {key}, Append(result, d))
       ELSE Deduplicate(Tail(ds), seen, Append(result, d))

\* lines 183-212: one iteration of `for email in emails`
ScanEmail(st, email) ==
  LET text == Lower(Chars[email.subject] \o <<" ">> \o Chars[email.preview])
      hits == KeyTermHits(text)
  IN IF hits # <<>> /\ MaxFlames(hits) >= 2
     THEN Emit(st, "email",
               Discovery("Communications", MaxFlames(hits), email.timestamp,
                         Prefix(Terms(hits), 5), "emails",
                         <<"Subject: ", email.subject, email.preview>>))
     ELSE st

RECURSIVE ScanEmails(_, _)
ScanEmails(st, emails) ==
  IF emails = <<>> THEN st ELSE ScanEmails(ScanEmail(st, Head(emails)), Tail(emails))

RECURSIVE OnePerPassword(_, _)
OnePerPassword(st, passwords) ==
  IF passwords = <<>> THEN st
  ELSE OnePerPassword(
         Emit(st, "passwords",
              Discovery("Passwords", 2, None, <<"passwords", "credentials">>, "passwords",
                        <<"Found ", Str(1), " stored passwords/credentials.">>)),
         Tail(passwords))

\* lines 256-273: `if passwords:` one discovery for the whole category, with
\* len(passwords) in its content and the content of the first ten as samples
ScanPasswords(st, passwords) ==
  IF passwords = <<>> THEN st
  ELSE Emit(st, "passwords",
            Discovery("Passwords", 2, None, <<"passwords", "credentials">>, "passwords",
                      <<"Found ", Str(Len(passwords)), " stored passwords/credentials.">>
                        \o [i \in DOMAIN Prefix(passwords, 10) |-> passwords[i].content]))

\* lines 325-349: one iteration of `for b in browsing`
ScanBrowse(st, b) ==
  LET text == Lower(Chars[b.title] \o <<" ">> \o Chars[b.url])
      hits == KeyTermHits(text)
  IN IF hits # <<>> /\ MaxFlames(hits) >= 2
     THEN Emit(st, "browse",
               Discovery("Searches", MaxFlames(hits), b.timestamp,
                         Prefix(Terms(hits), 5), "browsing", <<"Title: ", b.title, b.url>>))
     ELSE st

RECURSIVE ScanBrowsing(_, _)
ScanBrowsing(st, browsing) ==
  IF browsing = <<>> THEN st ELSE ScanBrowsing(ScanBrowse(st, Head(browsing)), Tail(browsing))

\* lines 123-349: one iteration of `for device_id, categories in
\* cellebrite_data.items()`; the export holds no locations and no calls
ScanExport(st, export) ==
  ScanBrowsing(
    ScanPasswords(
      ScanSearches(
        ScanEmails(
          ScanChats([st EXCEPT !.device_id = export.device_id], export.chats),
          export.emails),
        export.searches),
      export.passwords),
    export.browsing)

RECURSIVE ScanExports(_, _)
ScanExports(st, data) ==
  IF data = <<>> THEN st ELSE ScanExports(ScanExport(st, Head(data)), Tail(data))

\* lines 352-361: all_contacts[name].append(device_id), as (device, name)
\* pairs in the order they are met (the names of the exports carry no
\* surrounding whitespace, so strip() leaves them as they are)
RECURSIVE ContactPairs(_)
ContactPairs(data) ==
  IF data = <<>> THEN <<>>
  ELSE LET named == SelectSeq(Head(data).contacts, LAMBDA c : Truthy(c.name))
       IN [i \in DOMAIN named |-> [device_id |-> Head(data).device_id, name |-> named[i].name]]
            \o ContactPairs(Tail(data))

\* the keys of all_contacts in insertion order
RECURSIVE FirstSeen(_, _)
FirstSeen(pairs, seen) ==
  IF pairs = <<>> THEN <<>>
  ELSE IF Head(pairs).name \in seen THEN FirstSeen(Tail(pairs), seen)
  ELSE <<Head(pairs).name>> \o FirstSeen(Tail(pairs), seen \cup {Head(pairs).name})

\* line 365: unique_devices = list(set(devices)).  A set of str iterates in
\* the order of the hashes of its members, which the interpreter salts anew
\* in every process; hash_order is the order the process of this scan gives
\* the device ids
ListOfSet(devices, hash_order) ==
  SelectSeq(hash_order, LAMBDA d : d \in devices)

\* lines 364-384: one iteration of `for name, devices in all_contacts.items()`
CrossDevice(st, pairs, name, hash_order) ==
  LET unique_devices ==
        ListOfSet({ pairs[i].device_id : i \in { j \in DOMAIN pairs : pairs[j].name = name } },
                  hash_order)
      is_key == \E k \in DOMAIN KEY_PEOPLE :
                  IsSubstring(Lower(Chars[KEY_PEOPLE[k]]), Lower(Chars[name]))
      flames == IF is_key THEN 3 ELSE 1
  IN IF Len(unique_devices) > 1 /\ (flames >= 2 \/ Len(unique_devices) >= 3)
     THEN Emit(st, "cross",
               Discovery("Cross-Device", flames, None,
                         <<"cross-device", "shared contact", name>>, "contacts",
                         <<"Contact ", name, " found on: ">> \o unique_devices))
     ELSE st

RECURSIVE CrossDevices(_, _, _, _)
CrossDevices(st, pairs, names, hash_order) ==
  IF names = <<>> THEN st
  ELSE CrossDevices(CrossDevice(st, pairs, Head(names), hash_order), pairs, Tail(names),
                    hash_order)

\* scan_discoveries over the exports of cellebrite_data, in the order of the
\* dict
scan_discoveries(data, hash_order) ==
  LET st0 == [disc_id |-> 100, discoveries |-> VERIFIED_DISCOVERIES, device_id |-> None]
      st1 == [ScanExports(st0, data) EXCEPT !.device_id = None]
      pairs == ContactPairs(data)
  IN Deduplicate(CrossDevices(st1, pairs, FirstSeen(pairs, {}), hash_order).discoveries,
                 {}, <<>>)

(***************************************************************************)
(* db.py: the record store.  Files, parsers and tables                     *)
(***************************************************************************)
\* db.DEVICE_MAP keys and CATEGORIES, in iteration order
DEVICE_MAP == <<"belinda-knisley", "joy-quinn", "wendi-woods", "zachary-quinn">>
CATEGORIES == <<"browsing", "calls", "chats", "contacts", "emails", "locations", "notes",
                "passwords", "searches", "voicemails">>

\* the export files present in CELLEBRITE_DIR, in DEVICE_MAP x CATEGORIES
\* order; every other <person>_<cat>.md is absent (fpath.exists() is false)
Files == << [person_id |-> "joy-quinn", cat |-> "contacts"],
            [person_id |-> "wendi-woods", cat |-> "searches"] >>
FileIds == DOMAIN Files

\* directories of AXIOM_DIR: two extractions of one seized device
AXIOM_DEVICES == <<"RMR034359_White iPhone SE", "RMR034359_White iPhone SE_TaintClear">>
Composite == "RMR034359"

\* _extract_rmr_base: re.match(r'^(RMR\d+)', device_id)
_extract_rmr_base(device_id) ==
  IF device_id \in Range(AXIOM_DEVICES) THEN Composite ELSE None

\* str.rfind(c): the last position of c in s, 0 when there is none
\* (positions count from 1, so Python's idx is RFind - 1)
RFind(s, c) ==
  IF \E i \in DOMAIN s : s[i] = c
  THEN CHOOSE i \in DOMAIN s : s[i] = c /\ \A j \in DOMAIN s : s[j] = c => j <= i
  ELSE 0

\* the first position at or after i where c stands, Len(s) + 1 when none
Find(s, c, i) ==
  IF \E j \in i..Len(s) : s[j] = c
  THEN CHOOSE j \in i..Len(s) : s[j] = c /\ \A k \in i..Len(s) : s[k] = c => j <= k
  ELSE Len(s) + 1

\* the literal p stands in s at position i
At(s, i, p) == i + Len(p) - 1 <= Len(s) /\ SubSeq(s, i, i + Len(p) - 1) = p

\* \d{4}-\d{2}-\d{2}T at position i
DateAt(s, i) ==
  /\ i + 10 <= Len(s)
  /\ \A k \in {0, 1, 2, 3, 5, 6, 8, 9} : s[i + k] \in Digits
  /\ s[i + 4] = "-" /\ s[i + 7] = "-" /\ s[i + 10] = "T"

\* pat.match(line) for
\*   ^- \[(\d{4}-\d{2}-\d{2}T[^\]]+)\] \*\*([^*]*)\*\*: (.+)
\* [^\]]+ runs to the first "]", [^*]* to the first "*", .+ to the end of the
\* line; none of them can give characters back and still match
ChatPattern(line) ==
  LET close == Find(line, "]", 4)
      star == Find(line, "*", close + 4)
      eol == Find(line, "\n", star + 4)
  IN IF /\ At(line, 1, <<"-", " ", "[">>)
        /\ DateAt(line, 4)
        /\ close > 15
        /\ At(line, close, <<"]", " ", "*", "*">>)
        /\ At(line, star, <<"*", "*", ":", " ">>)
        /\ eol > star + 4
     THEN [matched |-> TRUE, ts |-> SubSeq(line, 4, close - 1),
           sender |-> SubSeq(line, close + 4, star - 1),
           rest |-> SubSeq(line, star + 4, eol - 1)]
     ELSE [matched |-> FALSE, ts |-> <<>>, sender |-> <<>>, rest |-> <<>>]

\* _parse_chats with the body kept as `body[:idx]`, without its .strip()
ParseChatUnstripped(line) ==
  LET m == ChatPattern(line)
      body == Strip(m.rest)
      paren == RFind(body, "(")
      source == IF paren > 1 /\ body[Len(body)] = ")"
                THEN SubSeq(body, paren + 1, Len(body) - 1) ELSE <<>>
  IN IF ~m.matched THEN NoCache
     ELSE Cached([timestamp |-> m.ts, sender |-> m.sender,
                  body |-> IF source # <<>> THEN SubSeq(body, 1, paren - 1) ELSE body,
                  source_app |-> source])

\* the body of the loop of _parse_chats: the record a line yields, if any
ParseChatLine(line) ==
  LET m == ChatPattern(line)
      body == Strip(m.rest)
      paren == RFind(body, "(")
      source == IF paren > 1 /\ body[Len(body)] = ")"
                THEN SubSeq(body, paren + 1, Len(body) - 1) ELSE <<>>
  IN IF ~m.matched THEN NoCache
     ELSE Cached([timestamp |-> m.ts, sender |-> m.sender,
                  body |-> IF source # <<>> THEN Strip(SubSeq(body, 1, paren - 1)) ELSE body,
                  source_app |-> source])

\* header_pat.match(line) for ^### Chat: (.+) and started_pat.match(line) for
\* ^\*\*Started:\*\* (.+): the text after the literal up to the end of the
\* line, which must not be empty
AfterLiteral(line, literal) ==
  LET from == Len(literal) + 1
      eol == Find(line, "\n", from)
  IN IF StartsWith(line, literal) /\ eol > from
     THEN Cached(SubSeq(line, from, eol - 1)) ELSE NoCache

\* a flush that appends the open thread whether or not it has messages
FlushAlways(threads, current) ==
  IF current # NoCache THEN Append(threads, current[1]) ELSE threads

\* `if current and current['messages']: threads.append(current)`
FlushThread(threads, current) ==
  IF current # NoCache /\ current[1].messages # <<>>
  THEN Append(threads, current[1]) ELSE threads

\* `source_app or 'Unknown'`
ImplicitSource(source_app) ==
  IF source_app # <<>> THEN source_app ELSE Chars["Unknown"]

NewThread(thread_num, source, started) ==
  [thread_num |-> thread_num, source |-> source, started |-> started,
   messages |-> <<>>, participants |-> {}]

\* one iteration of the loop of _index_chat_threads over the lines of the
\* file; st holds threads, current and thread_num
IndexThreadLine(st, line) ==
  LET hm == AfterLiteral(line, Chars["### Chat: "])
      sm == AfterLiteral(line, Chars["**Started:** "])
      mm == ParseChatLine(line)
  IN IF hm # NoCache
     THEN [threads |-> FlushThread(st.threads, st.current),
           thread_num |-> st.thread_num + 1,
           current |-> Cached(NewThread(st.thread_num + 1, Strip(hm[1]), <<>>))]
     ELSE IF st.current # NoCache /\ sm # NoCache
     THEN [st EXCEPT !.current[1].started = Strip(sm[1])]
     ELSE IF mm # NoCache
     THEN LET opened == IF st.current = NoCache
                        THEN [st EXCEPT
                                !.thread_num = @ + 1,
                                !.current = Cached(NewThread(st.thread_num + 1,
                                                             ImplicitSource(mm[1].source_app),
                                                             mm[1].timestamp))]
                        ELSE st
          IN [opened EXCEPT
                !.current[1].messages = Append(@, mm[1]),
                !.current[1].participants =
                   IF mm[1].sender # <<>> THEN @ \cup {mm[1].sender} ELSE @]
     ELSE st

RECURSIVE IndexThreadLines(_, _)
IndexThreadLines(st, lines) ==
  IF lines = <<>> THEN st
  ELSE IndexThreadLines(IndexThreadLine(st, Head(lines)), Tail(lines))

\* the row of chat_threads written for a parsed thread
ThreadRow(t) ==
  LET msgs == t.messages IN
  [thread_num |-> t.thread_num, source_app |-> t.source, started |-> t.started,
   first_date |-> IF msgs # <<>> THEN msgs[1].timestamp ELSE t.started,
   last_date |-> IF msgs # <<>> THEN msgs[Len(msgs)].timestamp ELSE t.started,
   message_count |-> Len(msgs),
   participants |-> IF t.participants = {} THEN {Chars["Unknown"]} ELSE t.participants,
   last_message_preview |-> IF msgs # <<>> THEN Prefix(msgs[Len(msgs)].body, 200) ELSE <<>>]

\* the rows of chat_messages written for a parsed thread
MessageRows(t) ==
  [i \in DOMAIN t.messages |->
     [thread_num |-> t.thread_num, timestamp |-> t.messages[i].timestamp,
      sender |-> t.messages[i].sender, body |-> t.messages[i].body,
      source_app |-> t.messages[i].source_app]]

RECURSIVE Concat(_)
Concat(seqs) == IF seqs = <<>> THEN <<>> ELSE Head(seqs) \o Concat(Tail(seqs))

\* _index_chat_threads: the rows inserted for the lines of one chats file
_index_chat_threads(lines) ==
  LET end == IndexThreadLines([threads |-> <<>>, thread_num |-> 0, current |-> NoCache],
                              lines)
      threads == FlushThread(end.threads, end.current)
  IN [chat_threads |-> [i \in DOMAIN threads |-> ThreadRow(threads[i])],
      chat_messages |-> Concat([i \in DOMAIN threads |-> MessageRows(threads[i])])]

\* _parse_chats: the records of table records for the same lines
_parse_chats(lines) ==
  Concat([i \in DOMAIN lines |-> ParseChatLine(lines[i])])

(* ---- _parse_emails (db.py) and parse_emails (data_loader.py) ------------ *)
\* the characters U+2014 (em dash) and U+2192 (rightwards arrow), each one
\* element of a line
EmDash == "U+2014"
Arrow == "U+2192"

\* line.startswith('### ') and EmDash in line
IsEmailHeader(line) == StartsWith(line, Chars["### "]) /\ EmDash \in Range(line)

\* parts = line[4:].split(EmDash, 1); ts = parts[0].strip(); subject =
\* parts[1].strip()
HeaderParts(line) ==
  LET dash == Find(line, EmDash, 5) IN
  [timestamp |-> Strip(SubSeq(line, 5, dash - 1)),
   subject |-> Strip(SubSeq(line, dash + 1, Len(line)))]

\* the first position at or after i that holds no white space
SkipSpaces(line, i) ==
  IF \E j \in i..Len(line) : ~IsSpace(line[j])
  THEN CHOOSE j \in i..Len(line) :
         ~IsSpace(line[j]) /\ \A k \in i..(j - 1) : IsSpace(line[k])
  ELSE Len(line) + 1

NoAddresses == [from_addr |-> <<>>, to_addr |-> <<>>]

\* re.match(r'\*\*From:\*\*\s*(.*?)\s*ARROW\s*\*\*To:\*\*\s*(.*)', line) and
\* the two groups stripped: the lazy first group ends at the first arrow
\* that is followed, after white space, by **To:**; neither group crosses
\* the end of the line
FromTo(line) ==
  LET from == Chars["**From:**"]
      to == Chars["**To:**"]
      eol == Find(line, "\n", 1)
      arrows == { a \in (Len(from) + 1)..(eol - 1) :
                    line[a] = Arrow /\ At(line, SkipSpaces(line, a + 1), to) }
  IN IF StartsWith(line, from) /\ arrows # {}
     THEN LET a == MinOf(arrows)
              t == SkipSpaces(line, a + 1)
          IN Cached([from_addr |-> Strip(SubSeq(line, Len(from) + 1, a - 1)),
                     to_addr |-> Strip(SubSeq(line, t + Len(to), eol - 1))])
     ELSE NoCache

\* s.replace(old, '')
RECURSIVE Remove(_, _)
Remove(s, old) ==
  IF s = <<>> THEN <<>>
  ELSE IF StartsWith(s, old) THEN Remove(SubSeq(s, Len(old) + 1, Len(s)), old)
  ELSE <<Head(s)>> \o Remove(Tail(s), old)

\* re.sub(r'<[^>]+>', '', s)
RECURSIVE StripTags(_)
StripTags(s) ==
  IF s = <<>> THEN <<>>
  ELSE LET close == Find(s, ">", 2) IN
       IF Head(s) = "<" /\ close > 2 /\ close <= Len(s)
       THEN StripTags(SubSeq(s, close + 1, Len(s)))
       ELSE <<Head(s)>> \o StripTags(Tail(s))

PREVIEW_CAP == 300

\* the preview loop: lines i.. up to the next rule or `### ` line
RECURSIVE Preview(_, _, _)
Preview(lines, i, preview) ==
  IF \/ i > Len(lines)
     \/ StartsWith(lines[i], Chars["---"])
     \/ StartsWith(lines[i], Chars["### "])
  THEN [preview |-> Strip(Prefix(preview, PREVIEW_CAP)), next |-> i]
  ELSE LET clean == Strip(StripTags(lines[i])) IN
       Preview(lines, i + 1,
               IF clean # <<>> /\ Len(preview) < PREVIEW_CAP
               THEN preview \o clean \o <<" ">> ELSE preview)

\* the body of `if line.startswith('### ') and EmDash in line:` for the
\* header at lines[i]; addresses holds the variables from_addr and to_addr
\* as they are when the header is met (NoCache: not bound)
EmailAt(lines, i, addresses) ==
  LET h == HeaderParts(lines[i])
      has_next == i + 1 <= Len(lines)
      ft == IF has_next THEN FromTo(lines[i + 1]) ELSE NoCache
      k == IF has_next THEN i + 2 ELSE i + 1
      has_source == has_next /\ k <= Len(lines) /\ StartsWith(lines[k], Chars["**Source:**"])
      p == Preview(lines, IF has_source THEN k + 1 ELSE k, <<>>)
  IN [timestamp |-> h.timestamp, subject |-> h.subject,
      addresses |-> IF ~has_next THEN addresses
                    ELSE IF ft # NoCache THEN ft ELSE Cached(NoAddresses),
      source |-> IF has_source THEN Strip(Remove(lines[k], Chars["**Source:**"])) ELSE <<>>,
      preview |-> p.preview, next |-> p.next]

\* db._parse_emails: from_addr = to_addr = source = "" at every header
RECURSIVE _parse_emails_from(_, _, _)
_parse_emails_from(lines, i, acc) ==
  IF i > Len(lines) THEN [raised |-> FALSE, emails |-> acc]
  ELSE IF IsEmailHeader(lines[i])
  THEN LET e == EmailAt(lines, i, Cached(NoAddresses)) IN
       _parse_emails_from(lines, e.next,
         Append(acc, [timestamp |-> e.timestamp, subject |-> e.subject,
                      from_addr |-> e.addresses[1].from_addr,
                      to_addr |-> e.addresses[1].to_addr,
                      source_app |-> e.source, preview |-> e.preview]))
  ELSE _parse_emails_from(lines, i + 1, acc)

_parse_emails(lines) == _parse_emails_from(lines, 1, <<>>)

\* data_loader.parse_emails: from_addr and to_addr are assigned only when a
\* line follows the header; emails.append(...) reads them as they are, and
\* raises UnboundLocalError when they were never assigned
RECURSIVE parse_emails_from(_, _, _, _)
parse_emails_from(lines, i, addresses, acc) ==
  IF i > Len(lines) THEN [raised |-> FALSE, emails |-> acc]
  ELSE IF IsEmailHeader(lines[i])
  THEN LET e == EmailAt(lines, i, addresses) IN
       IF e.addresses = NoCache THEN [raised |-> TRUE, emails |-> <<>>]
       ELSE parse_emails_from(lines, e.next, e.addresses,
              Append(acc, [timestamp |-> e.timestamp, subject |-> e.subject,
                           from |-> e.addresses[1].from_addr,
                           to |-> e.addresses[1].to_addr,
                           source |-> e.source, preview |-> e.preview]))
  ELSE parse_emails_from(lines, i + 1, addresses, acc)

parse_emails(lines) == parse_emails_from(lines, 1, NoCache, <<>>)

\* the lines a parser's pattern matches and the record it yields for each
\* (_parse_contacts, _parse_searches); any other line is skipped
ParsedLine ==
  ("- **2021-07-31T23:59:59** | weather | Safari" :>
     [timestamp |-> "2021-07-31T23:59:59", query |-> "weather", source_app |-> "Safari"]) @@
  ("- **2021-08-01T00:00:00** | weather | Safari" :>
     [timestamp |-> "2021-08-01T00:00:00", query |-> "weather", source_app |-> "Safari"]) @@
  ("- **2021-08-11T12:00:00** | weather | Safari" :>
     [timestamp |-> "2021-08-11T12:00:00", query |-> "weather", source_app |-> "Safari"]) @@
  ("- **2021-08-11T23:59:59+00:00** | weather | Safari" :>
     [timestamp |-> "2021-08-11T23:59:59+00:00", query |-> "weather", source_app |-> "Safari"]) @@
  ("- **2021-08-12T00:00:00** | weather | Safari" :>
     [timestamp |-> "2021-08-12T00:00:00", query |-> "weather", source_app |-> "Safari"]) @@
  ("- **John Smith** | Source: Phone" :> [name |-> "John Smith", source_app |-> "Phone"]) @@
  ("- **Jane Doe** | Source: Phone" :> [name |-> "Jane Doe", source_app |-> "Phone"]) @@
  ("- **2021-05-25T10:00:00** | weather | Safari" :>
     [timestamp |-> "2021-05-25T10:00:00", query |-> "weather", source_app |-> "Safari"]) @@
  ("- **2021-05-25T10:00:00** | how to delete signal messages | Safari" :>
     [timestamp |-> "2021-05-25T10:00:00", query |-> "how to delete signal messages",
      source_app |-> "Safari"])

parser(lines) ==
  LET hits == SelectSeq(lines, LAMBDA l : l \in DOMAIN ParsedLine)
  IN [i \in DOMAIN hits |-> ParsedLine[hits[i]]]

\* the texts an export file can hold
Contents ==
  << { <<"# Contacts", "- **John Smith** | Source: Phone">>,
       <<"# Contacts", "- **John Smith** | Source: Phone", "",
         "- **Jane Doe** | Source: Phone">> },
     { <<"# Searches", "- **2021-05-25T10:00:00** | weather | Safari">>,
       <<"# Searches", "- **2021-05-25T10:00:00** | weather | Safari",
         "- **2021-05-25T10:00:00** | how to delete signal messages | Safari">> } >>
FirstContents ==
  << <<"# Contacts", "- **John Smith** | Source: Phone">>,
     <<"# Searches", "- **2021-05-25T10:00:00** | weather | Safari">> >>

\* file_index.mtime is a REAL column: a stored st_mtime is rounded to the
\* nearest single-precision value below; Float4Step is the spacing of those
\* values on the model's time scale
Float4Step == 2
Float4(m) == (m \div Float4Step) * Float4Step

MaxMtime == 2
MaxEdits == 2

NoRow == -1
NoTx == [cleared |-> FALSE, files |-> <<>>]

EmptyDb ==
  [records |-> [f \in FileIds |-> <<>>], counts |-> [f \in FileIds |-> NoRow],
   file_index |-> [f \in FileIds |-> NoRow], devices |-> {}, discoveries |-> <<>>]

\* conn.commit(): the statements of the transaction take effect together
Commit(d, x) ==
  [d EXCEPT
     !.records = [f \in FileIds |-> IF f \in DOMAIN x.files THEN x.files[f].records
                                    ELSE IF x.cleared THEN <<>> ELSE d.records[f]],
     !.counts = [f \in FileIds |-> IF f \in DOMAIN x.files THEN x.files[f].count
                                   ELSE IF x.cleared THEN NoRow ELSE d.counts[f]],
     !.file_index = [f \in FileIds |-> IF f \in DOMAIN x.files
                                       THEN Float4(x.files[f].st_mtime)
                                       ELSE IF x.cleared THEN NoRow ELSE d.file_index[f]],
     !.devices = IF x.cleared THEN Range(DEVICE_MAP) \cup Range(AXIOM_DEVICES) ELSE @]

\* the INSERTs of one re-indexed file, added to a transaction
Upsert(x, f, recs, st_mtime) ==
  [x EXCEPT !.files = [g \in DOMAIN x.files \cup {f} |->
                         IF g = f THEN [records |-> recs, count |-> Len(recs),
                                        st_mtime |-> st_mtime]
                         ELSE x.files[g]]]

\* discovery_engine.scan_discoveries_from_db, lines 568-596: the searches of
\* the device, as the function is written to behave once its queries run
HIGH_TERMS == SelectSeq(KEY_TERMS, LAMBDA kt : kt.flames >= 2)

ScanSearchFromDb(st, rec) ==
  LET q_lower == Lower(Chars[rec.query])
      hits == SelectSeq(HIGH_TERMS, LAMBDA kt : IsSubstring(Lower(Chars[kt.term]), q_lower))
      phrases == SelectSeq(SUSPICIOUS_PHRASES, LAMBDA p : IsSubstring(Chars[p], q_lower))
      matched == Terms(hits) \o phrases
  IN IF matched # <<>>
     THEN Emit(st, "search",
               Discovery("Searches", IF phrases # <<>> THEN 3 ELSE MaxFlames(hits),
                         rec.timestamp, Prefix(matched, 5), "searches",
                         <<"Search: ", rec.query>>))
     ELSE st

RECURSIVE ScanSearchesFromDb(_, _)
ScanSearchesFromDb(st, recs) ==
  IF recs = <<>> THEN st
  ELSE ScanSearchesFromDb(ScanSearchFromDb(st, Head(recs)), Tail(recs))

scan_discoveries_from_db(records) ==
  ScanSearchesFromDb([disc_id |-> 100, discoveries |-> VERIFIED_DISCOVERIES,
                      device_id |-> ScanDevice],
                     records[CHOOSE f \in FileIds : Files[f].cat = "searches"]).discoveries

\* searchable = " ".join(str(v) for v in rec.values() if v), of a chat record
\* with timestamp and body
Searchable(rec) ==
  IF Truthy(rec.timestamp) /\ Truthy(rec.body)
  THEN Chars[rec.timestamp] \o <<" ">> \o Chars[rec.body]
  ELSE IF Truthy(rec.timestamp) THEN Chars[rec.timestamp]
  ELSE IF Truthy(rec.body) THEN Chars[rec.body] ELSE <<>>

\* lines 463-481 and 489-506: the rows that match one term, at most one
\* discovery per day
RECURSIVE ScanTermRows(_, _, _, _)
ScanTermRows(st, rows, kt, seen_dates) ==
  IF rows = <<>> THEN st
  ELSE LET ts == Head(rows).timestamp
           date_key == IF Truthy(ts) THEN Prefix(Chars[ts], 10) ELSE <<"nodate">>
       IN IF date_key \in seen_dates THEN ScanTermRows(st, Tail(rows), kt, seen_dates)
          ELSE ScanTermRows(
                 Emit(st, IF kt.flames = 3 THEN "term3" ELSE "term2",
                      Discovery("Communications", kt.flames, ts, <<kt.term>>, "chats",
                                <<Head(rows).body>>)),
                 Tail(rows), kt, seen_dates \cup {date_key})

\* lines 457-506: for term in high_terms_3, then for term in high_terms_2,
\* WHERE searchable ILIKE %term%
RECURSIVE ScanTermsFromDb(_, _, _)
ScanTermsFromDb(st, rows, terms) ==
  IF terms = <<>> THEN st
  ELSE LET kt == Head(terms)
           hit(r) == IsSubstring(Lower(Chars[kt.term]), Lower(Searchable(r)))
       IN ScanTermsFromDb(ScanTermRows(st, SelectSeq(rows, hit), kt, {}), rows, Tail(terms))

\* f"{date_str}T00:00:00"
MIDNIGHT ==
  [d \in { CRITICAL_DATES[i].date_str : i \in DOMAIN CRITICAL_DATES } |->
     CASE d = "2021-05-23" -> "2021-05-23T00:00:00" [] d = "2021-05-24" -> "2021-05-24T00:00:00"
       [] d = "2021-05-25" -> "2021-05-25T00:00:00" [] d = "2021-05-26" -> "2021-05-26T00:00:00"
       [] d = "2021-08-10" -> "2021-08-10T00:00:00" [] d = "2021-08-11" -> "2021-08-11T00:00:00"
       [] d = "2021-08-09" -> "2021-08-09T00:00:00" [] d = "2021-08-12" -> "2021-08-12T00:00:00"
       [] d = "2021-07-29" -> "2021-07-29T00:00:00" [] d = "2021-07-30" -> "2021-07-30T00:00:00"]

\* lines 509-527: the messages of one critical date, `LIMIT 5` and rows[:3]
\* taken in table order
RECURSIVE ScanDateRows(_, _, _)
ScanDateRows(st, rows, cd) ==
  IF rows = <<>> THEN st
  ELSE ScanDateRows(
         IF Len(Chars[Head(rows).body]) < 10 THEN st
         ELSE Emit(st, "date",
                   Discovery("Communications", cd.flames, MIDNIGHT[cd.date_str],
                             <<cd.label, cd.date_str>>, "chats", <<Head(rows).body>>)),
         Tail(rows), cd)

RECURSIVE ScanDatesFromDb(_, _, _)
ScanDatesFromDb(st, rows, dates) ==
  IF dates = <<>> THEN st
  ELSE LET cd == Head(dates)
           on_date(r) == Truthy(r.timestamp) /\ StartsWith(Chars[r.timestamp], Chars[cd.date_str])
       IN ScanDatesFromDb(ScanDateRows(st, Prefix(Prefix(SelectSeq(rows, on_date), 5), 3), cd),
                          rows, Tail(dates))

\* scan_discoveries_from_db over a table that holds the chats of one device
\* and nothing else: lines 438-527, the other queries return no rows
ScanChatsFromDb(rows) ==
  LET st0 == [disc_id |-> 100, discoveries |-> VERIFIED_DISCOVERIES, device_id |-> ScanDevice]
      st3 == ScanTermsFromDb(st0, rows, SelectSeq(KEY_TERMS, LAMBDA kt : kt.flames = 3))
      st2 == ScanTermsFromDb(st3, rows, SelectSeq(KEY_TERMS, LAMBDA kt : kt.flames = 2))
  IN ScanDatesFromDb(st2, rows, CRITICAL_DATES).discoveries

\* SELECT category, COUNT(*) FROM discoveries GROUP BY category
CategoryCounts(discs) ==
  [c \in { discs[i].category : i \in DOMAIN discs } |->
     Cardinality({ i \in DOMAIN discs : discs[i].category = c })]

\* _rebuild_caches lines 453-518: the map a rebuild fills in
MergedDeviceMap(devices) ==
  LET group == SelectSeq(AXIOM_DEVICES, LAMBDA d : d \in devices)
  IN IF group = <<>> THEN <<>>
     ELSE IF Len(group) = 1 THEN (group[1] :> group)
     ELSE (Composite :> group) @@ [d \in Range(group) |-> <<d>>]

\* _resolve_device_ids
_resolve_device_ids(map, device_id) ==
  IF device_id \in DOMAIN map THEN map[device_id] ELSE <<device_id>>

(***************************************************************************)
(* db.py: the query API (get_device_data, get_discoveries)                 *)
(***************************************************************************)
\* the code points of the characters timestamps are written with
Ascii ==
  ("+" :> 43) @@ ("-" :> 45) @@ ("." :> 46) @@ ("0" :> 48) @@ ("1" :> 49) @@ ("2" :> 50) @@
  ("3" :> 51) @@ ("4" :> 52) @@ ("5" :> 53) @@ ("6" :> 54) @@ ("7" :> 55) @@ ("8" :> 56) @@
  ("9" :> 57) @@ (":" :> 58) @@ ("T" :> 84) @@ ("Z" :> 90)

\* a < b on a TEXT column: the first differing character decides, a proper
\* prefix sorts first
TextLess(a, b) ==
  LET n == IF Len(a) < Len(b) THEN Len(a) ELSE Len(b)
      diff == { i \in 1..n : a[i] # b[i] }
  IN IF diff = {} THEN Len(a) < Len(b)
     ELSE Ascii[a[MinOf(diff)]] < Ascii[b[MinOf(diff)]]

TextLeq(a, b) == a = b \/ TextLess(a, b)

\* the sort keys of get_discoveries (lines 588-592) and of get_device_data
\* (line 688); a NULL timestamp is larger than every other
NoTimestamp(r) == r.timestamp = None
TimestampDesc(a, b) ==
  \/ NoTimestamp(a) /\ ~NoTimestamp(b)
  \/ ~NoTimestamp(a) /\ ~NoTimestamp(b) /\ TextLess(Chars[b.timestamp], Chars[a.timestamp])
TimestampAsc(a, b) ==
  \/ ~NoTimestamp(a) /\ NoTimestamp(b)
  \/ ~NoTimestamp(a) /\ ~NoTimestamp(b) /\ TextLess(Chars[a.timestamp], Chars[b.timestamp])
ImportanceOrder(a, b) ==
  \/ a.flames > b.flames
  \/ a.flames = b.flames /\ a.verified /\ ~b.verified
  \/ a.flames = b.flames /\ a.verified = b.verified /\ TimestampDesc(a, b)

\* row a sorts before row b under the ORDER BY clause
Before(order, a, b) ==
  CASE order = "timestamp DESC" -> TimestampDesc(a, b)
    [] order = "timestamp ASC" -> TimestampAsc(a, b)
    [] order = "flames DESC, verified DESC, timestamp DESC" -> ImportanceOrder(a, b)

\* ORDER BY: the rows sorted so that a row stands before every row it is
\* Before; PostgreSQL leaves the order of rows with equal sort keys open, the
\* model returns them in table order or in reverse table order
TieOrders == {"table", "reverse"}
OrderBy(rows, order, tie) ==
  LET rank(i) == Cardinality({ j \in DOMAIN rows :
                     \/ Before(order, rows[j], rows[i])
                     \/ /\ ~Before(order, rows[i], rows[j])
                        /\ IF tie = "table" THEN j <= i ELSE j >= i })
  IN [r \in DOMAIN rows |-> rows[CHOOSE i \in DOMAIN rows : rank(i) = r]]

\* LIMIT per_page OFFSET (page - 1) * per_page, and list[offset:offset+per_page]
Page(rows, page, per_page) ==
  LET offset == (page - 1) * per_page
      last == IF offset + per_page < Len(rows) THEN offset + per_page ELSE Len(rows)
  IN IF offset >= Len(rows) THEN <<>> ELSE SubSeq(rows, offset + 1, last)

\* the rows of table records of the given devices and category, in table order
RECURSIVE RecordRows(_, _, _, _)
RecordRows(d, sub_ids, category, f) ==
  IF f > Len(Files) THEN <<>>
  ELSE (IF /\ Files[f].person_id \in Range(sub_ids)
           /\ category \in {None, Files[f].cat}
        THEN [i \in DOMAIN d.records[f] |->
                [timestamp |-> IF "timestamp" \in DOMAIN d.records[f][i]
                               THEN d.records[f][i].timestamp ELSE "",
                 data |-> d.records[f][i], category |-> Files[f].cat]]
        ELSE <<>>)
       \o RecordRows(d, sub_ids, category, f + 1)

\* lines 671-676: timestamp >= date_from, timestamp <= date_to + 'T23:59:59'
InDateRange(row, date_from, date_to) ==
  /\ date_from # None => TextLeq(Chars[date_from], Chars[row.timestamp])
  /\ date_to # None =>
       TextLeq(Chars[row.timestamp],
               Chars[date_to] \o <<"T", "2", "3", ":", "5", "9", ":", "5", "9">>)


\* get_device_data lines 665-701, the Cellebrite branch without a text query
CellebriteData(d, sub_ids, req, tie) ==
  LET rows == SelectSeq(RecordRows(d, sub_ids, req.category, 1),
                        LAMBDA row : InDateRange(row, req.date_from, req.date_to))
      page == Page(OrderBy(rows, "timestamp DESC", tie), req.page, req.per_page)
  IN [records |-> [i \in DOMAIN page |-> [data |-> page[i].data, _category |-> page[i].category]],
      total |-> Len(rows), page |-> req.page, per_page |-> req.per_page]

\* json.dumps(r, default=str) of a record of an AXIOM file, before and after
\* it is tagged
Quoted(chars) == <<"\"">> \o chars \o <<"\"">>
JsonDumps(r) ==
  <<"{">> \o Quoted(<<"n", "a", "m", "e">>) \o <<":", " ">> \o Quoted(Chars[r.name])
    \o (IF "_extraction" \in DOMAIN r
        THEN <<",", " ">> \o Quoted(<<"_", "e", "x", "t", "r", "a", "c", "t", "i", "o", "n">>)
               \o <<":", " ">> \o Quoted(Chars[r._extraction])
        ELSE <<>>)
    \o <<"}">>

\* ql in json.dumps(r, default=str).lower()
QueryMatches(query, r) == IsSubstring(Lower(Chars[query]), Lower(JsonDumps(r)))

\* the one category the AXIOM extractions of the model have a JSON file for
AxiomCategory == "Contacts"
NoFile == [exists |-> FALSE, valid |-> FALSE, data |-> <<>>]
AxiomFile(dir, sid, category) == IF category = AxiomCategory THEN dir[sid] ELSE NoFile

\* _get_axiom_data lines 703-733 (the extractions have no rows in
\* device_category_counts, so the summary of the branch without a category
\* is empty)
_get_axiom_data(dir, device_id, category, page, per_page, query) ==
  IF category = None
  THEN [records |-> <<>>, total |-> 0, page |-> 1, per_page |-> 0]
  ELSE LET file == AxiomFile(dir, device_id, category)
           data == IF file.exists /\ file.valid THEN file.data ELSE <<>>
           hits == IF query # None
                   THEN SelectSeq(data, LAMBDA r : QueryMatches(query, r)) ELSE data
       IN [records |-> Page(hits, page, per_page), total |-> Len(hits),
           page |-> page, per_page |-> per_page]

\* lines 754-768: the records of every readable file, tagged
RECURSIVE MergedData(_, _, _)
MergedData(dir, sub_ids, category) ==
  IF sub_ids = <<>> THEN <<>>
  ELSE LET file == AxiomFile(dir, Head(sub_ids), category)
       IN (IF file.exists /\ file.valid
           THEN [i \in DOMAIN file.data |->
                   [name |-> file.data[i].name, _extraction |-> Head(sub_ids)]]
           ELSE <<>>)
          \o MergedData(dir, Tail(sub_ids), category)

\* _get_axiom_data_merged lines 735-776
_get_axiom_data_merged(dir, sub_ids, category, page, per_page, query) ==
  IF category = None
  THEN [records |-> <<>>, total |-> 0, page |-> 1, per_page |-> 0]
  ELSE LET all_data == MergedData(dir, sub_ids, category)
           hits == IF query # None
                   THEN SelectSeq(all_data, LAMBDA r : QueryMatches(query, r)) ELSE all_data
       IN [records |-> Page(hits, page, per_page), total |-> Len(hits),
           page |-> page, per_page |-> per_page]

\* get_device_data lines 642-701, for a call without concurrent writers
get_device_data(req) ==
  /\ \E tie \in TieOrders :
       LET sub_ids == _resolve_device_ids(merged_device_map, req.device_id) IN
       response' = Cached(
         IF sub_ids[1] \notin db.devices
         THEN [records |-> <<>>, total |-> 0, page |-> req.page, per_page |-> req.per_page]
         ELSE IF sub_ids[1] \in Range(AXIOM_DEVICES)
         THEN IF Len(sub_ids) > 1
              THEN _get_axiom_data_merged(axiom_dir, sub_ids, req.category, req.page,
                                          req.per_page, req.query)
              ELSE _get_axiom_data(axiom_dir, sub_ids[1], req.category, req.page,
                                   req.per_page, req.query)
         ELSE CellebriteData(db, sub_ids, req, tie))
  /\ request' = Cached(req)
  /\ UNCHANGED <<axiom_dir, netVars, discVars, dbVars, textVars, moreVars>>

\* every sort mode ordered as the default mode is
OrderAlwaysByImportance(rows, sort, tie) ==
  OrderBy(rows, "flames DESC, verified DESC, timestamp DESC", tie)

DiscoveryOrder(rows, sort, tie) ==
  LET order == IF sort = "date" THEN "timestamp DESC"
               ELSE IF sort = "date_asc" THEN "timestamp ASC"
               ELSE "flames DESC, verified DESC, timestamp DESC"
  IN OrderBy(rows, order, tie)

\* get_discoveries lines 567-612 with category and person "all", for a call
\* without concurrent writers
get_discoveries(req) ==
  /\ discoveries_cache' = IF discoveries_cache = NoCache
                          THEN Cached(CategoryCounts(db.discoveries)) ELSE discoveries_cache
  /\ \E tie \in TieOrders :
       response' = Cached(
         [discoveries |-> Page(DiscoveryOrder(db.discoveries, req.sort, tie),
                               req.page, req.per_page),
          total |-> Len(db.discoveries), page |-> req.page, per_page |-> req.per_page,
          category_counts |-> discoveries_cache'])
  /\ request' = Cached(req)
  /\ UNCHANGED <<axiom_dir, netVars, discVars, textVars, moreVars, fs, db, lock, pc, loc,
                 merged_device_map, devices_cache, stats_cache, last_index_time,
                 edits, indexed>>

(***************************************************************************)
(* db.py: threads.  "loop" is the server's event loop: it runs startup()   *)
(* and then one request handler at a time; "watcher" is the thread of      *)
(* start_watcher.                                                          *)
(***************************************************************************)
Threads == {"loop", "watcher"}
Home(t) == IF t = "loop" THEN "idle" ELSE "sleep"

NoLocals ==
  [todo |-> <<>>, changed |-> <<>>, parsed |-> <<>>, tx |-> NoTx, unchanged |-> {},
   pre |-> <<>>, rows |-> {}, ret |-> "", cnt |-> <<>>, f |-> 0, total |-> 0,
   device_id |-> "", overlap |-> FALSE, modified |-> {}, result |-> [kind |-> "none"]]

Goto(t, label) == pc' = [pc EXCEPT ![t] = label]
Return(t) == /\ pc' = [pc EXCEPT ![t] = Home(t)]
             /\ loc' = [loc EXCEPT ![t] = NoLocals]

TotalRecords(d) == Cardinality({ <<f, i>> \in FileIds \X (1..3) : i <= Len(d.records[f]) })

\* time.time(): the clock advances with every change of the export directory
time == 1 + edits

\* a call ends: its value, or its exception, goes to the caller
Finish(t, label, result) ==
  /\ pc' = [pc EXCEPT ![t] = label]
  /\ loc' = [loc EXCEPT ![t] = [NoLocals EXCEPT !.result = result]]

(* ---- start_watcher / startup ------------------------------------------ *)
\* server.startup after full_index returned: start_watcher, then requests are
\* served
StartServing ==
  /\ pc' = [pc EXCEPT !["loop"] = "idle", !["watcher"] = "sleep"]
  /\ loc' = [loc EXCEPT !["loop"] = NoLocals]

(* ---- _rebuild_caches ---------------------------------------------------- *)
\* lines 438-461: read the devices and their counts
RebuildRead(t) ==
  /\ pc[t] = "rb_read"
  /\ loc' = [loc EXCEPT ![t].rows = db.devices, ![t].cnt = db.counts]
  /\ Goto(t, "rb_reset")
  /\ UNCHANGED <<otherVars, fs, db, lock, caches, edits, indexed>>

\* line 465: self._merged_device_map = {}
RebuildReset(t) ==
  /\ pc[t] = "rb_reset"
  /\ merged_device_map' = <<>>
  /\ Goto(t, "rb_fill")
  /\ UNCHANGED <<otherVars, fs, db, lock, loc, devices_cache, stats_cache, discoveries_cache,
                 last_index_time, edits, indexed>>

\* lines 467-518: the entries are added to the map in place
RebuildFill(t) ==
  /\ pc[t] = "rb_fill"
  /\ merged_device_map' = MergedDeviceMap(loc[t].rows)
  /\ Goto(t, "rb_assign")
  /\ UNCHANGED <<otherVars, fs, db, lock, loc, devices_cache, stats_cache, discoveries_cache,
                 last_index_time, edits, indexed>>

\* lines 520-539: self._devices_cache = devices; self._stats_cache = {...}
RebuildAssign(t) ==
  /\ pc[t] = "rb_assign"
  /\ LET ids == (loc[t].rows \ Range(AXIOM_DEVICES))
                  \cup { _extract_rmr_base(d) : d \in loc[t].rows \cap Range(AXIOM_DEVICES) }
     IN /\ devices_cache' = Cached([ids |-> ids, categories |-> loc[t].cnt])
        /\ stats_cache' = Cached([total_devices |-> Cardinality(ids),
                                  categories |-> loc[t].cnt,
                                  last_indexed |-> last_index_time])
  /\ Goto(t, loc[t].ret)
  /\ UNCHANGED <<otherVars, fs, db, lock, loc, merged_device_map, discoveries_cache, last_index_time, edits, indexed>>

(* ---- full_index --------------------------------------------------------- *)
\* lines 211-218: SELECT COUNT(*) FROM records; the store is populated and
\* force is False, so the index is skipped and the caches are rebuilt
FullIndexCheck ==
  /\ pc["loop"] = "fi_check"
  /\ IF TotalRecords(db) > 0
     THEN /\ last_index_time' = time
          /\ loc' = [loc EXCEPT !["loop"].ret = "fi_disc"]
          /\ Goto("loop", "rb_read")
     ELSE /\ Goto("loop", "fi_clear")
          /\ UNCHANGED <<last_index_time, loc>>
  /\ UNCHANGED <<otherVars, fs, db, lock, merged_device_map, devices_cache, stats_cache,
                 discoveries_cache, edits, indexed>>

\* lines 219-226: recompute the discoveries if there are none
FullIndexDiscCheck ==
  /\ pc["loop"] = "fi_disc"
  /\ IF db.discoveries = <<>>
     THEN /\ Goto("loop", "fi_disc_compute")
          /\ UNCHANGED loc
     ELSE StartServing
  /\ UNCHANGED <<otherVars, fs, db, lock, caches, edits, indexed>>

\* lines 229-239: the DELETEs that open the re-index transaction
FullIndexClear ==
  /\ pc["loop"] = "fi_clear"
  /\ loc' = [loc EXCEPT !["loop"].tx = [cleared |-> TRUE, files |-> <<>>],
                        !["loop"].todo = [i \in FileIds |-> i],
                        !["loop"].changed = [i \in FileIds |-> i]]
  /\ Goto("loop", "fi_parse")
  /\ UNCHANGED <<otherVars, fs, db, lock, caches, edits, indexed>>

\* _index_cellebrite lines 269-283: parse the next file; an exception of the
\* parser leaves full_index, and the dropped connection rolls the
\* transaction back
IndexCellebriteParse ==
  /\ pc["loop"] = "fi_parse"
  /\ LET f == Head(loc["loop"].todo) IN
     IF fs[f].readable
     THEN /\ loc' = [loc EXCEPT !["loop"].parsed = parser(fs[f].lines)]
          /\ Goto("loop", "fi_store")
     ELSE Finish("loop", "crashed",
                 [kind |-> "full_index", status |-> "parser_raised", failed |-> f,
                  changed |-> Len(loc["loop"].changed),
                  failed_count |-> db.counts[f],
                  others_stored |->
                    \A g \in FileIds \ {f} : db.records[g] = parser(fs[g].lines)])
  /\ UNCHANGED <<otherVars, fs, db, lock, caches, edits, indexed>>

\* _index_cellebrite lines 284-291: the INSERTs of the parsed file, with the
\* st_mtime the file has now
IndexCellebriteStore ==
  /\ pc["loop"] = "fi_store"
  /\ LET f == Head(loc["loop"].todo)
         rest == Tail(loc["loop"].todo)
     IN /\ loc' = [loc EXCEPT !["loop"].tx = Upsert(@, f, loc["loop"].parsed, fs[f].mtime),
                              !["loop"].todo = rest, !["loop"].parsed = <<>>]
        /\ Goto("loop", IF rest = <<>> THEN "fi_commit" ELSE "fi_parse")
  /\ UNCHANGED <<otherVars, fs, db, lock, caches, edits, indexed>>

\* _index_cellebrite line 297, _index_axiom_metadata, full_index line 246
IndexCommit ==
  /\ pc["loop"] = "fi_commit"
  /\ db' = Commit(db, loc["loop"].tx)
  /\ indexed' = [f \in FileIds |-> loc["loop"].tx.files[f].st_mtime]
  /\ loc' = [loc EXCEPT !["loop"].tx = NoTx]
  /\ Goto("loop", "fi_compute")
  /\ UNCHANGED <<otherVars, fs, lock, caches, edits>>

\* full_index lines 252-262: the index is complete
FullIndexDone ==
  /\ pc["loop"] = "fi_done"
  /\ StartServing
  /\ UNCHANGED <<otherVars, fs, db, lock, caches, edits, indexed>>

(* ---- _compute_discoveries ----------------------------------------------- *)
ComputePcs == {"fi_disc_compute", "fi_compute", "rf_compute"}

\* scan_discoveries_from_db raises on its first query (cur.execute(...)
\* returns None, discovery_engine.py lines 459-462): the DELETE of line 549 is
\* never committed.  In full_index the first call sits inside `try/except
\* Exception: pass` and falls through to the re-index; the second ends
\* startup.  In refresh the exception leaves the `with self._lock` block.
ComputeDiscoveriesRaises(t) ==
  /\ pc[t] \in ComputePcs
  /\ IF pc[t] = "fi_disc_compute"
     THEN /\ Goto(t, "fi_clear")
          /\ UNCHANGED <<loc, lock>>
     ELSE IF pc[t] = "fi_compute"
     THEN /\ Finish(t, "crashed", [kind |-> "full_index", status |-> "scan_raised",
                                   changed |-> Len(loc[t].changed)])
          /\ UNCHANGED lock
     ELSE /\ Finish(t, "rf_return", [kind |-> "refresh", status |-> "scan_raised",
                                     changed |-> Len(loc[t].changed)])
          /\ lock' = None
  /\ UNCHANGED <<otherVars, fs, db, caches, edits, indexed>>

\* _compute_discoveries as written for a scan that returns: DELETE, scan,
\* INSERT, commit, invalidate the category counts
ComputeDiscoveriesReturns(t) ==
  /\ pc[t] \in ComputePcs
  /\ db' = [db EXCEPT !.discoveries = scan_discoveries_from_db(db.records)]
  /\ discoveries_cache' = NoCache
  /\ IF pc[t] = "fi_disc_compute"
     THEN /\ StartServing
          /\ UNCHANGED last_index_time
     ELSE IF pc[t] = "fi_compute"
     THEN /\ last_index_time' = time
          /\ loc' = [loc EXCEPT ![t].ret = "fi_done"]
          /\ Goto(t, "rb_read")
     ELSE /\ loc' = [loc EXCEPT ![t].ret = "rf_done"]
          /\ Goto(t, "rb_read")
          /\ UNCHANGED last_index_time
  /\ UNCHANGED <<otherVars, fs, lock, merged_device_map, devices_cache, stats_cache, edits, indexed>>

(* ---- refresh ------------------------------------------------------------ *)
\* the watcher wakes up, or POST /api/refresh arrives
RefreshCall(t) ==
  /\ pc[t] = Home(t)
  /\ Goto(t, "rf_lock")
  /\ UNCHANGED <<otherVars, fs, db, lock, loc, caches, edits, indexed>>

\* the labels of a get_discoveries call in progress
GetDiscoveriesPcs == {"gd_set", "gd_query", "gd_result"}

LockAlwaysAvailable(t) == TRUE
\* threading.Lock.acquire blocks while another thread holds the lock
LockAvailable(t) == lock = None

\* line 820: with self._lock
RefreshAcquire(t) ==
  /\ pc[t] = "rf_lock"
  /\ LockAvailable(t)
  /\ lock' = t
  /\ Goto(t, "rf_detect")
  /\ loc' = [loc EXCEPT !["loop"].overlap = @ \/ pc["loop"] \in GetDiscoveriesPcs]
  /\ UNCHANGED <<otherVars, fs, db, caches, edits, indexed>>

\* _detect_changes: a file is changed when it has no file_index row or the
\* stored mtime differs from its st_mtime
_detect_changes ==
  SelectSeq([i \in FileIds |-> i],
            LAMBDA f : db.file_index[f] = NoRow \/ db.file_index[f] # fs[f].mtime)

\* lines 821-828
RefreshDetect(t) ==
  /\ pc[t] = "rf_detect"
  /\ LET changed == _detect_changes IN
     IF changed = <<>>
     THEN /\ Finish(t, "rf_return",
                    [kind |-> "refresh", status |-> "returned", changed |-> 0])
          /\ lock' = None
     ELSE /\ loc' = [loc EXCEPT ![t].todo = changed, ![t].changed = changed,
                                ![t].tx = NoTx, ![t].pre = db]
          /\ Goto(t, "rf_parse")
          /\ UNCHANGED lock
  /\ UNCHANGED <<otherVars, fs, db, caches, edits, indexed>>

\* lines 831-850: DELETE the partition and parse the file; an exception of
\* the parser leaves refresh: the lock is released and the dropped connection
\* rolls the transaction back
RefreshParse(t) ==
  /\ pc[t] = "rf_parse"
  /\ LET f == Head(loc[t].todo) IN
     IF fs[f].readable
     THEN /\ loc' = [loc EXCEPT ![t].parsed = parser(fs[f].lines),
                                ![t].unchanged = @ \cup (IF fs[f].mtime = indexed[f]
                                                         THEN {f} ELSE {})]
          /\ Goto(t, "rf_store")
          /\ UNCHANGED lock
     ELSE /\ Finish(t, "rf_return",
                    [kind |-> "refresh", status |-> "parser_raised", failed |-> f,
                     changed |-> Len(loc[t].changed),
                     kept_old |-> db.records[f] = loc[t].pre.records[f],
                     others_reindexed |->
                       \A g \in Range(loc[t].changed) \ {f} :
                          db.records[g] = parser(fs[g].lines)])
          /\ lock' = None
  /\ UNCHANGED <<otherVars, fs, db, caches, edits, indexed>>

\* lines 851-858: the INSERTs of the parsed file, with the st_mtime the file
\* has now
RefreshStore(t) ==
  /\ pc[t] = "rf_store"
  /\ LET f == Head(loc[t].todo)
         rest == Tail(loc[t].todo)
     IN /\ loc' = [loc EXCEPT ![t].tx = Upsert(@, f, loc[t].parsed, fs[f].mtime),
                              ![t].todo = rest, ![t].parsed = <<>>]
        /\ Goto(t, IF rest = <<>> THEN "rf_commit" ELSE "rf_parse")
  /\ UNCHANGED <<otherVars, fs, db, lock, caches, edits, indexed>>

\* line 860: conn.commit()
RefreshCommit(t) ==
  /\ pc[t] = "rf_commit"
  /\ db' = Commit(db, loc[t].tx)
  /\ indexed' = [f \in FileIds |-> IF f \in DOMAIN loc[t].tx.files
                                   THEN loc[t].tx.files[f].st_mtime ELSE indexed[f]]
  /\ loc' = [loc EXCEPT ![t].tx = NoTx,
                        ![t].modified = { f \in FileIds :
                                            \/ db'.records[f] # db.records[f]
                                            \/ db'.counts[f] # db.counts[f] }]
  /\ Goto(t, "rf_compute")
  /\ UNCHANGED <<otherVars, fs, lock, caches, edits>>

\* lines 865-871
RefreshDone(t) ==
  /\ pc[t] = "rf_done"
  /\ last_index_time' = time
  /\ lock' = None
  /\ Finish(t, "rf_return",
            [kind |-> "refresh", status |-> "returned", changed |-> Len(loc[t].changed),
             fresh |-> db.discoveries = scan_discoveries_from_db(db.records)])
  /\ UNCHANGED <<otherVars, fs, db, merged_device_map, devices_cache, stats_cache, discoveries_cache, edits, indexed>>

\* refresh hands its result, or its exception, to its caller: the watcher
\* logs it and sleeps (lines 906-911), the request handler answers
RefreshReturn(t) ==
  /\ pc[t] = "rf_return"
  /\ Return(t)
  /\ UNCHANGED <<otherVars, fs, db, lock, caches, edits, indexed>>

(* ---- request handlers on the event loop --------------------------------- *)
\* the (device_id, category) pairs that are asked for
\* the defaults of /api/device/{device_id}: page: int = 1, per_page: int = 50
DefaultPage == 1
DefaultPerPage == 50

Requests ==
  { [device_id |-> Files[f].person_id, f |-> f] : f \in FileIds }
    \cup { [device_id |-> Composite, f |-> 0] }

\* get_device_data lines 643-664: resolve the id, look the device up; an
\* AXIOM device is answered from its extraction directories
GetDeviceDataStart(req) ==
  /\ pc["loop"] = "idle"
  /\ LET sub_ids == _resolve_device_ids(merged_device_map, req.device_id) IN
     IF sub_ids[1] \notin db.devices
     THEN Finish("loop", "respond",
                 [kind |-> "device_data", device_id |-> req.device_id,
                  found |-> FALSE, records |-> <<>>, total |-> 0,
                  page |-> DefaultPage, per_page |-> DefaultPerPage])
     ELSE IF sub_ids[1] \in Range(AXIOM_DEVICES)
     THEN Finish("loop", "respond",
                 [kind |-> "axiom_data", device_id |-> req.device_id, sub_ids |-> sub_ids])
     ELSE /\ loc' = [loc EXCEPT !["loop"].f = req.f, !["loop"].device_id = req.device_id]
          /\ Goto("loop", "gdd_count")
  /\ UNCHANGED <<otherVars, fs, db, lock, caches, edits, indexed>>

\* lines 685-686: SELECT COUNT(*) FROM records WHERE ...
GetDeviceDataCount ==
  /\ pc["loop"] = "gdd_count"
  /\ loc' = [loc EXCEPT !["loop"].total = Len(db.records[loc["loop"].f])]
  /\ Goto("loop", "gdd_select")
  /\ UNCHANGED <<otherVars, fs, db, lock, caches, edits, indexed>>

\* lines 687-701: SELECT data, category FROM records WHERE ... LIMIT/OFFSET
\* (the request carries no page or per_page: page 1 of 50 records)
GetDeviceDataSelect ==
  /\ pc["loop"] = "gdd_select"
  /\ Finish("loop", "respond",
            [kind |-> "device_data", device_id |-> loc["loop"].device_id,
             found |-> TRUE, records |-> Page(db.records[loc["loop"].f], DefaultPage, DefaultPerPage),
             total |-> loc["loop"].total,
             page |-> DefaultPage, per_page |-> DefaultPerPage])
  /\ UNCHANGED <<otherVars, fs, db, lock, caches, edits, indexed>>

\* a re-index pass of the other thread is between its first and last statement
ReindexInFlight == pc["watcher"] \notin {"off", "sleep", "rf_lock"}

\* get_discoveries lines 571-573: the category counts are queried when the
\* cache is None
GetDiscoveriesCheck ==
  /\ pc["loop"] = "idle"
  /\ IF discoveries_cache = NoCache
     THEN /\ loc' = [loc EXCEPT !["loop"].cnt = CategoryCounts(db.discoveries),
                                !["loop"].overlap = ReindexInFlight]
          /\ Goto("loop", "gd_set")
     ELSE /\ loc' = [loc EXCEPT !["loop"].overlap = ReindexInFlight]
          /\ Goto("loop", "gd_query")
  /\ UNCHANGED <<otherVars, fs, db, lock, caches, edits, indexed>>

\* line 574: self._discoveries_cache = {...}
GetDiscoveriesSet ==
  /\ pc["loop"] = "gd_set"
  /\ discoveries_cache' = Cached(loc["loop"].cnt)
  /\ Goto("loop", "gd_query")
  /\ UNCHANGED <<otherVars, fs, db, lock, loc, merged_device_map, devices_cache, stats_cache,
                 last_index_time, edits, indexed>>

\* lines 596-602: SELECT COUNT(*), SELECT * FROM discoveries
GetDiscoveriesQuery ==
  /\ pc["loop"] = "gd_query"
  /\ loc' = [loc EXCEPT !["loop"].total = Len(db.discoveries)]
  /\ Goto("loop", "gd_result")
  /\ UNCHANGED <<otherVars, fs, db, lock, caches, edits, indexed>>

\* lines 604-612: the result carries self._discoveries_cache as it is now
GetDiscoveriesResult ==
  /\ pc["loop"] = "gd_result"
  /\ Finish("loop", "respond",
            [kind |-> "discoveries", total |-> loc["loop"].total,
             category_counts |-> discoveries_cache,
             stored_counts |-> CategoryCounts(db.discoveries),
             overlapped |-> loc["loop"].overlap \/ ReindexInFlight])
  /\ UNCHANGED <<otherVars, fs, db, lock, caches, edits, indexed>>

\* the handler's value is sent to the client
Respond ==
  /\ pc["loop"] = "respond"
  /\ Return("loop")
  /\ UNCHANGED <<otherVars, fs, db, lock, caches, edits, indexed>>

(* ---- the export directory ------------------------------------------------ *)
\* an export file is rewritten
ModifyFile(f) ==
  /\ edits < MaxEdits
  /\ fs[f].mtime < MaxMtime
  /\ \E lines \in Contents[f] \ {fs[f].lines} :
       fs' = [fs EXCEPT ![f].lines = lines, ![f].mtime = @ + 1]
  /\ edits' = edits + 1
  /\ UNCHANGED <<otherVars, db, lock, pc, loc, caches, indexed>>

\* an export file is rewritten and its modification time is kept (a copy
\* that preserves times, two writes within one clock tick)
RewriteKeepingMtime(f) ==
  /\ edits < MaxEdits
  /\ \E lines \in Contents[f] \ {fs[f].lines} :
       fs' = [fs EXCEPT ![f].lines = lines]
  /\ edits' = edits + 1
  /\ UNCHANGED <<otherVars, db, lock, pc, loc, caches, indexed>>

\* an export file becomes unreadable (open() raises) or readable again
Chmod(f) ==
  /\ edits < MaxEdits
  /\ fs' = [fs EXCEPT ![f].readable = ~@]
  /\ edits' = edits + 1
  /\ UNCHANGED <<otherVars, db, lock, pc, loc, caches, indexed>>

(***************************************************************************)
(* Specifications                                                          *)
(***************************************************************************)
\* the state of a part of the program that a specification leaves out
DbIdle ==
  /\ fs = <<>> /\ db = EmptyDb /\ lock = None
  /\ pc = [t \in Threads |-> "off"] /\ loc = [t \in Threads |-> NoLocals]
  /\ merged_device_map = <<>> /\ devices_cache = NoCache /\ stats_cache = NoCache
  /\ discoveries_cache = NoCache /\ last_index_time = 0
  /\ edits = 0 /\ indexed = <<>>

NetIdle ==
  contact_files = <<>> /\ chat_files = <<>> /\ builder = NoBuilder /\ network = NoNetwork
DiscIdle == cellebrite_data = NoData /\ discoveries = NotScanned /\ chat_records = <<>>

NameIdle == raw_name = <<>> /\ normalized = NoCache /\ resolved = NoCache
NotIndexed == [mtime |-> NoRow, record_count |-> 0, changed |-> 0]
ThreadsIdle ==
  chat_file = <<>> /\ chat_threads = NoCache /\ chat_mtime = 0 /\ chat_index = NotIndexed
TextIdle == NameIdle /\ chat_line = <<>> /\ message = NoCache /\ ThreadsIdle

QueryIdle == axiom_dir = <<>> /\ request = NoCache /\ response = NoCache

EmailIdle == email_lines = <<>> /\ email_records = NoCache
AuthIdle == auth = NoCache
MoreIdle == EmailIdle /\ AuthIdle

(***************************************************************************)
(* Graph builds over bounded device exports                                *)
(***************************************************************************)
MaxContacts == 2
MaxThreads == 1
MessageCounts == {2, 5}
Platforms == {"SMS"}
\* the devices whose exports are non-empty (indexes into DEVICE_PREFIXES)
NetDevices == {2, 3}
ChatDevices == {2}

SeqsUpTo(S, n) == UNION { [1..k -> S] : k \in 0..n }

ThreadPool ==
  [participants : { <<p>> : p \in ParticipantPool },
   platform : Platforms, message_count : MessageCounts]

\* the threads of the second chats export (wendi-woods_chats.md): the other
\* owner on another platform, and the owner's own first name
SignalPool ==
  { [participants |-> <<JoyQuinn>>, platform |-> "Signal", message_count |-> 2],
    [participants |-> <<Wendi>>, platform |-> "Signal", message_count |-> 5] }
SignalDevice == 3

NetInit ==
  /\ \E c \in [NetDevices -> SeqsUpTo(ContactPool, MaxContacts)] :
       contact_files = [i \in DOMAIN DEVICE_PREFIXES |->
                          IF i \in NetDevices THEN c[i] ELSE <<>>]
  /\ \E c \in [ChatDevices -> SeqsUpTo(ThreadPool, MaxThreads)],
          d \in SeqsUpTo(SignalPool, MaxThreads) :
       chat_files = [i \in DOMAIN DEVICE_PREFIXES |->
                       IF i \in ChatDevices THEN c[i]
                       ELSE IF i = SignalDevice THEN d ELSE <<>>]
  /\ builder = NoBuilder
  /\ network = NoNetwork
  /\ DiscIdle /\ DbIdle /\ TextIdle /\ QueryIdle /\ MoreIdle

NetNext ==
  \/ build_network
  \/ ProcessContacts
  \/ PromoteContacts
  \/ ProcessChats
  \/ CrossDeviceEdges
  \/ BuildEdgeList

SpecNet == NetInit /\ [][NetNext]_vars

(***************************************************************************)
(* Scans over bounded device exports                                       *)
(***************************************************************************)
MaxChats == 2
MaxSearches == 1
Bodies == {"Dominion audit", "ballot audit", "hi", "the trusted build is Tuesday"}
Queries == {"dominion voting system ballot audit wipe", "how to delete signal messages",
            "ballot", "weather", "trusted build", "wiper blades"}
Timestamps == {"2021-05-25T10:00:00", "2021-08-12T09:30:00", "2020-01-01T00:00:00", ""}
SearchTimestamps == {"2021-05-25T10:00:00", ""}

MaxPasswords == 3
\* the devices of cellebrite_data, in the order of the dict
ScanDevices == <<"wendi-woods", "joy-quinn", "belinda-knisley">>
ContactNames == {"Tina Peters", "John Smith"}
Emails ==
  { [subject |-> "Dominion audit", preview |-> "hi", timestamp |-> ""],
    [subject |-> "ballot audit", preview |-> "hi", timestamp |-> ""],
    [subject |-> "hi", preview |-> "the trusted build is Tuesday", timestamp |-> ""] }
Browsing ==
  { [title |-> "ballot audit", url |-> "example.com", timestamp |-> ""],
    [title |-> "weather", url |-> "example.com/dominion", timestamp |-> ""] }

NoExport(device_id) ==
  [device_id |-> device_id, chats |-> <<>>, emails |-> <<>>, searches |-> <<>>,
   passwords |-> <<>>, browsing |-> <<>>, contacts |-> <<>>]

\* one device with chats and searches
ChatExports ==
  { <<[NoExport(ScanDevice) EXCEPT !.chats = c, !.searches = s]>> :
      c \in SeqsUpTo([body : Bodies, timestamp : Timestamps], MaxChats),
      s \in SeqsUpTo([query : Queries, timestamp : SearchTimestamps], MaxSearches) }

\* several devices with contacts, stored passwords, emails and browsing
DeviceExports ==
  { [i \in DOMAIN ScanDevices |->
       [NoExport(ScanDevices[i]) EXCEPT
          !.contacts = c[i],
          !.passwords = [k \in 1..(IF i = 1 THEN n ELSE IF i = 2 THEN m ELSE 0) |->
                           [content |-> "hi"]],
          !.emails = IF i = 1 THEN e ELSE <<>>,
          !.browsing = IF i = 1 THEN b ELSE <<>>]] :
      c \in [DOMAIN ScanDevices -> SeqsUpTo([name : ContactNames], 1)],
      n \in 0..MaxPasswords, m \in 0..1,
      e \in SeqsUpTo(Emails, 1), b \in SeqsUpTo(Browsing, 1) }

HashOrders(data) ==
  { o \in [DOMAIN data -> { data[i].device_id : i \in DOMAIN data }] :
      \A i, j \in DOMAIN o : i # j => o[i] # o[j] }

DiscInit ==
  /\ cellebrite_data \in ChatExports \cup DeviceExports
  /\ discoveries = NotScanned
  /\ chat_records = <<>>
  /\ NetIdle /\ DbIdle /\ TextIdle /\ QueryIdle /\ MoreIdle

\* a run of the engine over the loaded exports
ScanDiscoveries ==
  /\ \E hash_order \in HashOrders(cellebrite_data) :
       discoveries' = scan_discoveries(cellebrite_data, hash_order)
  /\ UNCHANGED <<cellebrite_data, chat_records, netVars, dbVars, textVars, queryVars, moreVars>>

DiscNext == ScanDiscoveries

SpecDisc == DiscInit /\ [][DiscNext]_vars

(***************************************************************************)
(* Specification of scan_discoveries_from_db over the chats of one device  *)
(***************************************************************************)
MaxChatRecords == 3

DbScanInit ==
  /\ chat_records \in SeqsUpTo([body : Bodies, timestamp : Timestamps], MaxChatRecords)
  /\ cellebrite_data = NoData
  /\ discoveries = NotScanned
  /\ NetIdle /\ DbIdle /\ TextIdle /\ QueryIdle /\ MoreIdle

\* discs = scan_discoveries_from_db(conn, DEVICE_MAP), db.py line 551
ScanFromDb ==
  /\ discoveries = NotScanned
  /\ discoveries' = ScanChatsFromDb(chat_records)
  /\ UNCHANGED <<cellebrite_data, chat_records, netVars, dbVars, textVars, queryVars, moreVars>>

DbScanNext == ScanFromDb

SpecDbScan == DbScanInit /\ [][DbScanNext]_vars

(***************************************************************************)
(* Specification of normalize_name: one call on a bounded name             *)
(***************************************************************************)
MaxNameLen == 4
NameChars == {"A", "b", " ", "\t", "."}
RawNames == UNION { [1..k -> NameChars] : k \in 0..MaxNameLen }

\* the last token of every primary's normalized name
LastNames ==
  { Split(PRIMARY_NORM[i])[Len(Split(PRIMARY_NORM[i]))] : i \in DOMAIN PRIMARY_PEOPLE }

\* names as contacts and chat senders carry them: full names, aliases, last
\* names alone, names that contain a primary's name, and strangers
WrittenNames ==
  { Chars[n] : n \in {"Wendi Woods", " WENDI  woods. ", "Mom", "Joy", "Zach Quinn", "Jerry Wood",
                      "Wendi Wood", "Dr. Tina M Peters", "Tina Peterson", "Gerald Woods",
                      "Peters, Tina", "Joy Smith", "John Smith", "Jo", "Zachary"} }

NameInit ==
  /\ raw_name \in RawNames \cup LastNames \cup WrittenNames
  /\ normalized = NoCache
  /\ resolved = NoCache
  /\ chat_line = <<>> /\ message = NoCache /\ ThreadsIdle
  /\ NetIdle /\ DiscIdle /\ DbIdle /\ QueryIdle /\ MoreIdle

\* norm = normalize_name(name), as build_network and match_primary call it
NormalizeName ==
  /\ normalized = NoCache
  /\ normalized' = Cached(normalize_name(raw_name))
  /\ UNCHANGED <<raw_name, resolved, chat_line, message, threadVars, netVars, discVars, dbVars, queryVars, moreVars>>

\* primary = match_primary(name), as build_network calls it
MatchPrimary ==
  /\ resolved = NoCache
  /\ resolved' = Cached(match_primary(raw_name))
  /\ UNCHANGED <<raw_name, normalized, chat_line, message, threadVars, netVars, discVars, dbVars, queryVars, moreVars>>

NameNext == NormalizeName \/ MatchPrimary

SpecName == NameInit /\ [][NameNext]_vars

(***************************************************************************)
(* Specification of _parse_chats: one line of a chats export               *)
(***************************************************************************)
MaxRestLen == 5
RestChars == {"a", " ", "(", ")"}
ChatTimestamps ==
  { <<"2","0","2","1","-","0","8","-","1","1","T","1","0",":","0","0">>,
    <<"2","0","2","1","-","0","8","-","1","1"," ","1","0",":","0","0">> }
Senders == { <<"W","e","n","d","i">>, <<>> }
LineEnds == { <<"\n">>, <<>> }

ChatLines ==
  { <<"-", " ", "[">> \o ts \o <<"]", " ", "*", "*">> \o sender
      \o <<"*", "*", ":", " ">> \o rest \o end :
      ts \in ChatTimestamps, sender \in Senders,
      rest \in UNION { [1..k -> RestChars] : k \in 0..MaxRestLen }, end \in LineEnds }

ChatInit ==
  /\ chat_line \in ChatLines
  /\ message = NoCache
  /\ NameIdle /\ ThreadsIdle
  /\ NetIdle /\ DiscIdle /\ DbIdle /\ QueryIdle /\ MoreIdle

\* one iteration of `for line in open(fpath, errors='replace')`
ParseChat ==
  /\ message = NoCache
  /\ ParseChatLine(chat_line) # NoCache
  /\ message' = ParseChatLine(chat_line)
  /\ UNCHANGED <<chat_line, threadVars, nameVars, netVars, discVars, dbVars, queryVars, moreVars>>

ChatNext == ParseChat

SpecChat == ChatInit /\ [][ChatNext]_vars

(***************************************************************************)
(* Specification of _index_chat_threads: the lines of one chats export     *)
(***************************************************************************)
MaxLines == 4
ThreadLines ==
  { Chars[l] \o <<"\n">> :
      l \in {"### Chat: Signal", "### Chat: SMS", "**Started:** 2021-08-06T10:00:00",
             "- [2021-08-06T10:00:00] **Wendi**: hi (Signal)",
             "- [2021-08-06T10:05:00] **Wendi**: hi",
             "- [2021-08-06T10:07:00] **Joy**: ok (SMS)"} }
    \cup { <<"\n">> }

ThreadsInit ==
  /\ chat_file \in SeqsUpTo(ThreadLines, MaxLines)
  /\ chat_threads = NoCache /\ chat_mtime = 0 /\ chat_index = NotIndexed
  /\ NameIdle /\ chat_line = <<>> /\ message = NoCache
  /\ NetIdle /\ DiscIdle /\ DbIdle /\ QueryIdle /\ MoreIdle

\* _index_cellebrite, lines 294-296: the threads of a chats file are indexed
IndexChatThreads ==
  /\ chat_threads = NoCache
  /\ chat_threads' = Cached(_index_chat_threads(chat_file))
  /\ UNCHANGED <<chat_file, chat_mtime, chat_index, chat_line, message, nameVars, netVars,
                 discVars, dbVars, queryVars, moreVars>>

ThreadsNext == IndexChatThreads

SpecThreads == ThreadsInit /\ [][ThreadsNext]_vars

(***************************************************************************)
(* Specification of the chats partition of one device: full_index has      *)
(* indexed the export, the file is rewritten, refresh re-indexes it        *)
(***************************************************************************)
MaxChatLines == 2
MaxChatEdits == 2

ChatStoreInit ==
  /\ chat_file \in SeqsUpTo(ThreadLines, MaxChatLines)
  /\ chat_mtime = 0
  /\ chat_records = _parse_chats(chat_file)
  /\ chat_threads = Cached(_index_chat_threads(chat_file))
  /\ chat_index = [mtime |-> chat_mtime, record_count |-> Len(chat_records), changed |-> 0]
  /\ cellebrite_data = NoData /\ discoveries = NotScanned
  /\ NameIdle /\ chat_line = <<>> /\ message = NoCache
  /\ NetIdle /\ DbIdle /\ QueryIdle /\ MoreIdle

\* the chats export is rewritten
ModifyChats ==
  /\ chat_mtime < MaxChatEdits
  /\ \E lines \in SeqsUpTo(ThreadLines, MaxChatLines) \ {chat_file} : chat_file' = lines
  /\ chat_mtime' = chat_mtime + 1
  /\ UNCHANGED <<chat_threads, chat_index, chat_records, cellebrite_data, discoveries,
                 nameVars, chat_line, message, netVars, dbVars, queryVars, moreVars>>

\* refresh, lines 818-860, for the chats file: when _detect_changes lists
\* it, DELETE its rows of table records, re-parse, INSERT, upsert the count
\* and the file_index row, commit.  No statement touches chat_threads or
\* chat_messages.
RefreshChats ==
  LET changed == IF chat_index.mtime # chat_mtime THEN 1 ELSE 0 IN
  /\ IF changed = 0
     THEN /\ chat_index' = [chat_index EXCEPT !.changed = 0]
          /\ UNCHANGED chat_records
     ELSE /\ chat_records' = _parse_chats(chat_file)
          /\ chat_index' = [mtime |-> chat_mtime, record_count |-> Len(chat_records'),
                            changed |-> 1]
  /\ UNCHANGED <<chat_file, chat_mtime, chat_threads, cellebrite_data, discoveries,
                 nameVars, chat_line, message, netVars, dbVars, queryVars, moreVars>>

ChatStoreNext == ModifyChats \/ RefreshChats

SpecChatStore == ChatStoreInit /\ [][ChatStoreNext]_vars

(***************************************************************************)
(* Specification of the email parsers: the lines of one emails export      *)
(***************************************************************************)
MaxEmailLines == 4
EmailLines ==
  { l \o <<"\n">> :
      l \in { Chars["### 2021-08-23 "] \o <<EmDash>> \o Chars[" A"],
              Chars["### 2021-08-24 "] \o <<EmDash>> \o Chars[" B"],
              Chars["**From:** a@x "] \o <<Arrow>> \o Chars[" **To:** b@x"],
              Chars["**From:** c@x"],
              Chars["**Source:** Mail"],
              Chars["<b>hi</b>"],
              Chars["---"] } }
LastLines == EmailLines \cup { Chars["### 2021-08-24 "] \o <<EmDash>> \o Chars[" B"] }

\* the lines of a file: every line but the last ends with a newline
EmailInit ==
  /\ \E body \in SeqsUpTo(EmailLines, MaxEmailLines - 1) :
       email_lines \in {body} \cup { Append(body, l) : l \in LastLines }
  /\ email_records = NoCache
  /\ auth = NoCache
  /\ NetIdle /\ DiscIdle /\ DbIdle /\ TextIdle /\ QueryIdle

\* the store's parser, PARSERS['emails']
ParseEmailsDb ==
  /\ email_records = NoCache
  /\ email_records' = Cached([parser |-> "db"] @@ _parse_emails(email_lines))
  /\ UNCHANGED <<email_lines, auth, netVars, discVars, dbVars, textVars, queryVars>>

\* the loader's parser, data_loader.parse_emails
ParseEmailsLoader ==
  /\ email_records = NoCache
  /\ email_records' = Cached([parser |-> "data_loader"] @@ parse_emails(email_lines))
  /\ UNCHANGED <<email_lines, auth, netVars, discVars, dbVars, textVars, queryVars>>

EmailNext == ParseEmailsDb \/ ParseEmailsLoader

SpecEmail == EmailInit /\ [][EmailNext]_vars

(***************************************************************************)
(* auth.py: AuthManager over auth.db.  Every method opens its own          *)
(* connection and commits each transaction by itself; a caller is a        *)
(* thread or worker process inside one call.                               *)
(***************************************************************************)
SESSION_EXPIRY_HOURS == 24
\* the clock advances in steps of TickHours
TickHours == 24
MaxNow == 48
MaxTokens == 2

Callers == {"c1"}
UserIds == {"admin", "analyst"}
Passwords == {"old-secret", "new-secret"}
\* the token of a request without one, and the tokens token_hex(64) returns
NoToken == 0
Tokens == 1..MaxTokens

IdleCall == [pc |-> "idle", user_id |-> None, overlapped |-> FALSE, token |-> NoToken]
NotValidated ==
  [token |-> NoToken, user |-> None, at |-> 0, expires_at |-> 0, was_active |-> FALSE,
   was_issued |-> FALSE, was_revoked |-> FALSE, was_barred |-> FALSE]

\* the tables after create_user for every user, nobody logged in
AuthInit ==
  /\ auth = [users |-> [u \in UserIds |-> [is_active |-> TRUE, password |-> "old-secret"]],
             sessions |-> {}, now |-> 0, next_token |-> 1,
             calls |-> [c \in Callers |-> IdleCall],
             issued |-> {}, revoked |-> {}, barred |-> {}, validated |-> NotValidated]
  /\ EmailIdle
  /\ NetIdle /\ DiscIdle /\ DbIdle /\ TextIdle /\ QueryIdle

authOthers == <<emailVars, netVars, discVars, dbVars, textVars, queryVars>>

\* the tokens handed out so far and those the logins in progress will get
Reserved == (auth.next_token - 1) + Cardinality({ c \in Callers : auth.calls[c].pc = "create" })

\* login, lines 215-239, for a request without a client address
\* (_is_rate_limited returns False, line 284): get_user_by_username reads
\* the user row; an unknown or inactive user, or a wrong password, ends the
\* call with None
LoginLookup(c, username, password) ==
  /\ auth.calls[c].pc = "idle"
  /\ Reserved < MaxTokens
  /\ IF /\ username \in UserIds
        /\ auth.users[username].is_active
        /\ auth.users[username].password = password
     THEN auth' = [auth EXCEPT !.calls[c] = [IdleCall EXCEPT !.pc = "create",
                                                             !.user_id = username]]
     ELSE UNCHANGED auth
  /\ UNCHANGED authOthers

\* login line 242, _create_session: INSERT INTO sessions, in a transaction
\* of its own
LoginCreateSession(c) ==
  /\ auth.calls[c].pc = "create"
  /\ LET token == auth.next_token
         user_id == auth.calls[c].user_id
     IN auth' = [auth EXCEPT
                   !.sessions = @ \cup {[token |-> token, user_id |-> user_id,
                                         expires_at |-> auth.now + SESSION_EXPIRY_HOURS]},
                   !.next_token = @ + 1,
                   !.issued = @ \cup {<<token, user_id>>},
                   !.barred = IF auth.calls[c].overlapped THEN @ \cup {token} ELSE @,
                   !.calls[c].pc = "return",
                   !.calls[c].token = token]
  /\ UNCHANGED authOthers

\* login lines 244-252: UPDATE users SET last_login, return the token
LoginReturn(c) ==
  /\ auth.calls[c].pc = "return"
  /\ auth' = [auth EXCEPT !.calls[c] = IdleCall]
  /\ UNCHANGED authOthers

\* DELETE FROM sessions WHERE user_id = ?: the rows that go, and the record
\* of the tokens that were issued, or are being issued, to the user
RevokeAll(a, user_id) ==
  [a EXCEPT
     !.sessions = { r \in @ : r.user_id # user_id },
     !.barred = @ \cup { t \in Tokens : <<t, user_id>> \in a.issued },
     !.calls = [c \in Callers |->
                  IF a.calls[c].pc = "create" /\ a.calls[c].user_id = user_id
                  THEN [a.calls[c] EXCEPT !.overlapped = TRUE] ELSE a.calls[c]]]

\* deactivate_user: UPDATE users SET is_active=0 and DELETE FROM sessions,
\* one transaction
deactivate_user(user_id) ==
  /\ auth' = RevokeAll([auth EXCEPT !.users[user_id].is_active = FALSE], user_id)
  /\ UNCHANGED authOthers

\* reset_password with a password of eight characters or more
reset_password(user_id, new_password) ==
  /\ auth' = RevokeAll([auth EXCEPT !.users[user_id].password = new_password], user_id)
  /\ UNCHANGED authOthers

\* update_user(user_id, is_active=...): UPDATE users SET is_active=?
update_user(user_id, is_active) ==
  /\ auth' = [auth EXCEPT !.users[user_id].is_active = is_active]
  /\ UNCHANGED authOthers

\* the row of SELECT ... FROM sessions s JOIN users u ON s.user_id=u.id
\* WHERE s.token=? AND u.is_active=1
SessionRow(a, token) ==
  { r \in a.sessions : r.token = token /\ a.users[r.user_id].is_active }

\* validate_session: no token, no row or an expired row give None, and an
\* expired row is deleted
validate_session(token) ==
  /\ LET rows == SessionRow(auth, token)
         row == CHOOSE r \in rows : TRUE
         expired == rows # {} /\ row.expires_at < auth.now
         seen == [token |-> token, at |-> auth.now,
                  was_revoked |-> token \in auth.revoked,
                  was_barred |-> token \in auth.barred]
     IN IF token = NoToken \/ rows = {}
        THEN auth' = [auth EXCEPT !.validated = seen @@ NotValidated]
        ELSE IF expired
        THEN auth' = [auth EXCEPT !.sessions = { r \in @ : r.token # token },
                                  !.validated = seen @@ NotValidated]
        ELSE auth' = [auth EXCEPT
                        !.validated =
                           seen @@ [user |-> row.user_id, expires_at |-> row.expires_at,
                                    was_active |-> auth.users[row.user_id].is_active,
                                    was_issued |-> <<token, row.user_id>> \in auth.issued]]
  /\ UNCHANGED authOthers

\* logout: _revoke_session(token)
logout(token) ==
  /\ token \in { r.token : r \in auth.sessions }
  /\ auth' = [auth EXCEPT !.sessions = { r \in @ : r.token # token },
                          !.revoked = @ \cup {token}]
  /\ UNCHANGED authOthers

\* datetime.now(timezone.utc) moves on
Tick ==
  /\ auth.now < MaxNow
  /\ auth' = [auth EXCEPT !.now = @ + TickHours]
  /\ UNCHANGED authOthers

AuthNext ==
  \/ \E c \in Callers, u \in UserIds \cup {"nobody"}, p \in Passwords : LoginLookup(c, u, p)
  \/ \E c \in Callers : LoginCreateSession(c)
  \/ \E c \in Callers : LoginReturn(c)
  \/ \E u \in UserIds : deactivate_user(u)
  \/ \E u \in UserIds, p \in Passwords : reset_password(u, p)
  \/ \E u \in UserIds, active \in BOOLEAN : update_user(u, active)
  \/ \E t \in Tokens \cup {NoToken} : validate_session(t)
  \/ \E t \in Tokens : logout(t)
  \/ Tick

SpecAuth == AuthInit /\ [][AuthNext]_vars

(***************************************************************************)
(* The record store behind the server                                      *)
(***************************************************************************)
\* the store as migrate-to-postgres.py leaves it: the rows of an earlier
\* index of the files, with or without stored discoveries
Migrated(files, with_discoveries) ==
  LET recs == [f \in FileIds |-> parser(files[f].lines)] IN
  [records |-> recs,
   counts |-> [f \in FileIds |-> Len(recs[f])],
   file_index |-> [f \in FileIds |-> Float4(files[f].mtime)],
   devices |-> Range(DEVICE_MAP) \cup Range(AXIOM_DEVICES),
   discoveries |-> IF with_discoveries THEN scan_discoveries_from_db(recs) ELSE <<>>]

DbInit ==
  /\ fs \in [FileIds -> [lines : Range(FirstContents), mtime : {0, 1}, readable : {TRUE}]]
  /\ \A f \in FileIds : fs[f].lines = FirstContents[f]
  /\ \E fresh \in BOOLEAN, with_discoveries \in BOOLEAN :
       /\ db = IF fresh THEN EmptyDb ELSE Migrated(fs, with_discoveries)
       /\ indexed = IF fresh THEN [f \in FileIds |-> NoRow]
                    ELSE [f \in FileIds |-> fs[f].mtime]
  /\ lock = None
  /\ pc = [t \in Threads |-> IF t = "loop" THEN "fi_check" ELSE "off"]
  /\ loc = [t \in Threads |-> NoLocals]
  /\ merged_device_map = <<>> /\ devices_cache = NoCache /\ stats_cache = NoCache
  /\ discoveries_cache = NoCache /\ last_index_time = 0
  /\ edits = 0
  /\ NetIdle /\ DiscIdle /\ TextIdle /\ QueryIdle /\ MoreIdle

Environment ==
  \/ \E f \in FileIds : ModifyFile(f)
  \/ \E f \in FileIds : RewriteKeepingMtime(f)
  \/ \E f \in FileIds : Chmod(f)

Startup ==
  \/ FullIndexCheck
  \/ FullIndexDiscCheck
  \/ FullIndexClear
  \/ IndexCellebriteParse
  \/ IndexCellebriteStore
  \/ IndexCommit

Rebuild ==
  \E t \in Threads : RebuildRead(t) \/ RebuildReset(t) \/ RebuildFill(t) \/ RebuildAssign(t)

Refresh ==
  \E t \in Threads :
    \/ RefreshCall(t)
    \/ RefreshAcquire(t)
    \/ RefreshDetect(t)
    \/ RefreshParse(t)
    \/ RefreshStore(t)
    \/ RefreshCommit(t)
    \/ RefreshReturn(t)

Handlers ==
  \/ \E req \in Requests : GetDeviceDataStart(req)
  \/ GetDeviceDataCount
  \/ GetDeviceDataSelect
  \/ GetDiscoveriesCheck
  \/ GetDiscoveriesSet
  \/ GetDiscoveriesQuery
  \/ GetDiscoveriesResult
  \/ Respond

\* the server as shipped
Next ==
  \/ Startup \/ Rebuild \/ Refresh \/ Handlers \/ Environment
  \/ \E t \in Threads : ComputeDiscoveriesRaises(t)

Spec == DbInit /\ [][Next]_vars

\* the server with a discovery scan that returns its result
NextScanReturns ==
  \/ Startup \/ Rebuild \/ Refresh \/ Handlers \/ Environment
  \/ \E t \in Threads : ComputeDiscoveriesReturns(t)
  \/ \E t \in Threads : RefreshDone(t)
  \/ FullIndexDone

SpecScanReturns == DbInit /\ [][NextScanReturns]_vars

\* the server started on a populated store (full_index returns at line 226
\* without re-indexing), with export files that are rewritten while it runs
WatchInit == DbInit /\ TotalRecords(db) > 0 /\ db.discoveries # <<>>

NextWatch ==
  \/ FullIndexCheck \/ FullIndexDiscCheck
  \/ Rebuild \/ Refresh \/ Handlers
  \/ \E f \in FileIds : ModifyFile(f)
  \/ \E t \in Threads : ComputeDiscoveriesRaises(t)

SpecWatch == WatchInit /\ [][NextWatch]_vars

(***************************************************************************)
(* The query API on a store at rest: the server has started, the watcher   *)
(* finds nothing to re-index, requests are answered one at a time          *)
(***************************************************************************)
MaxRows == 2
MaxAxiomRows == 1

SearchLines ==
  { "- **2021-07-31T23:59:59** | weather | Safari",
    "- **2021-08-01T00:00:00** | weather | Safari",
    "- **2021-08-11T12:00:00** | weather | Safari",
    "- **2021-08-11T23:59:59+00:00** | weather | Safari",
    "- **2021-08-12T00:00:00** | weather | Safari",
    "- **2021-05-25T10:00:00** | how to delete signal messages | Safari" }

AxiomNames == {"John Smith", "Jane Doe"}
\* a category file of an extraction: absent, not parseable as JSON, or a list
\* of records
AxiomFiles ==
  {NoFile, [exists |-> TRUE, valid |-> FALSE, data |-> <<>>]}
    \cup { [exists |-> TRUE, valid |-> TRUE, data |-> data] :
             data \in SeqsUpTo([name : AxiomNames], MaxAxiomRows) }

CellebriteRequests ==
  [device_id : {"wendi-woods"}, category : {"searches"}, page : {1, 2}, per_page : {1, 2},
   query : {None}, date_from : {None, "2021-08-01"}, date_to : {None, "2021-08-11"}]
    \cup [device_id : {"joy-quinn", "nobody"}, category : {None}, page : {DefaultPage},
          per_page : {DefaultPerPage}, query : {None}, date_from : {None, "2021-08-01"},
          date_to : {None}]
AxiomRequests ==
  { [device_id |-> d, category |-> AxiomCategory, page |-> pp[1], per_page |-> pp[2],
     query |-> q, date_from |-> None, date_to |-> None] :
      d \in {Composite, AXIOM_DEVICES[1]},
      pp \in {<<DefaultPage, DefaultPerPage>>, <<2, 1>>},
      q \in {None, "smith", "white"} }
DiscoveryRequests ==
  [sort : {"importance", "date", "date_asc"}, page : {1, 2}, per_page : {2, DefaultPerPage}]

QueryInit ==
  /\ \E lines \in SeqsUpTo(SearchLines, MaxRows) :
       fs = [f \in FileIds |->
               [lines |-> IF Files[f].cat = "searches" THEN <<"# Searches">> \o lines
                          ELSE FirstContents[f],
                mtime |-> 0, readable |-> TRUE]]
  /\ db = Migrated(fs, TRUE)
  /\ indexed = [f \in FileIds |-> fs[f].mtime]
  /\ lock = None
  /\ pc = [t \in Threads |-> Home(t)]
  /\ loc = [t \in Threads |-> NoLocals]
  /\ merged_device_map = MergedDeviceMap(db.devices)
  /\ devices_cache = NoCache /\ stats_cache = NoCache /\ discoveries_cache = NoCache
  /\ last_index_time = 0 /\ edits = 0
  /\ axiom_dir \in [Range(AXIOM_DEVICES) -> AxiomFiles]
  /\ request = NoCache /\ response = NoCache
  /\ NetIdle /\ DiscIdle /\ TextIdle /\ MoreIdle

\* one call is followed from the store at rest
QueryNext ==
  \/ \E req \in CellebriteRequests \cup AxiomRequests :
       request = NoCache /\ get_device_data(req)
  \/ \E req \in DiscoveryRequests :
       request = NoCache /\ get_discoveries(req)

SpecQuery == QueryInit /\ [][QueryNext]_vars

(***************************************************************************)
(* Claims                                                                  *)
(***************************************************************************)
RECURSIVE SumCounts(_)
SumCounts(types) ==
  IF types = <<>> THEN 0
  ELSE (IF Head(types).type = "shared_contact" THEN Head(types).count
        ELSE Head(types).message_count) + SumCounts(Tail(types))

\* C1: after any graph build, every edge's weight equals the sum of the
\* counts of its contribution entries (shared_contact counts plus chat
\* message_counts)
C1_WeightIsSumOfCounts ==
  network.built =>
    \A i \in DOMAIN network.edges :
      network.edges[i].weight = SumCounts(network.edges[i].types)

\* the tier a recorded tag stands for: its KEY_TERMS tier, 3 for a
\* deletion-related phrase, 0 for a tag that names no condition
TagTier(tag) ==
  IF \E i \in DOMAIN KEY_TERMS : KEY_TERMS[i].term = tag
  THEN KEY_TERMS[CHOOSE i \in DOMAIN KEY_TERMS : KEY_TERMS[i].term = tag].flames
  ELSE IF tag \in Range(SUSPICIOUS_PHRASES) \cup Range(SUSPICIOUS_WORDS) THEN 3
  ELSE 0

DateTier(date_str) ==
  (CHOOSE i \in DOMAIN CRITICAL_DATES : CRITICAL_DATES[i].date_str = date_str).flames

\* C2: every discovery a scan produces carries the maximum tier of the tags
\* recorded on it (keyword discoveries) or the configured tier of its
\* critical date (date discoveries)
C2_FlamesIsMaxRecordedTier ==
  \A i \in DOMAIN discoveries :
    LET d == discoveries[i] IN
      /\ d.id[1] \in {"chat", "search"} =>
           d.flames = MaxFlames([k \in DOMAIN d.tags |-> [flames |-> TagTier(d.tags[k])]])
      /\ d.id[1] = "date" =>
           d.flames = DateTier(d.tags[2])

\* C3: a refresh leaves the partition of every file whose modification time
\* is unchanged since it was indexed untouched: the records and the record
\* count it commits for such a file are the ones stored before
C3_UnchangedMtimeUntouched ==
  \A t \in Threads : loc[t].unchanged \cap loc[t].modified = {}

\* C4: the total a get_device_data call reports agrees with the record set
\* it returns, whatever a concurrent refresh commits meanwhile
C4_TotalAgreesWithRecords ==
  (pc["loop"] = "respond" /\ loc["loop"].result.kind = "device_data")
    => loc["loop"].result.total = Len(loc["loop"].result.records)

\* the labels at which a thread is inside a re-index pass (full_index, or
\* refresh from its change detection to its last statement)
PassPcs ==
  {"fi_check", "fi_disc", "fi_disc_compute", "fi_clear", "fi_parse", "fi_store",
   "fi_commit", "fi_compute", "fi_done", "rb_read", "rb_reset", "rb_fill", "rb_assign",
   "rf_detect", "rf_parse", "rf_store", "rf_commit", "rf_compute", "rf_done"}
InPass(t) == pc[t] \in PassPcs

\* C5: at most one re-index pass (refresh of the watcher, refresh on demand,
\* full index) is in flight at any time
C5_OnePassInFlight ==
  Cardinality({ t \in Threads : InPass(t) }) <= 1

\* C5 witness: a refresh on demand waits for the lock while the watcher's
\* refresh is writing its INSERTs
C5_RefreshWaitsForWatcher ==
  /\ pc["loop"] = "rf_lock"
  /\ pc["watcher"] = "rf_store"
  /\ lock = "watcher"

C8_PassRunsToCompletion ==
  \A t \in Threads :
    (/\ pc[t] \in {"rf_return", "crashed"}
     /\ loc[t].result.changed > 0
     /\ loc[t].result.status # "parser_raised")
      => /\ loc[t].result.status = "returned"
         /\ loc[t].result.fresh

\* C9: when the parser raises on one file during indexing, that file counts
\* zero records and every other file is parsed and stored
C9_IndexingContinuesPastFailure ==
  (pc["loop"] = "crashed" /\ loc["loop"].result.status = "parser_raised")
    => /\ loc["loop"].result.failed_count = 0
       /\ loc["loop"].result.others_stored

\* C10: when re-indexing one of several changed files fails during a refresh,
\* that file's partition holds its previous records and every other changed
\* file is re-indexed to its new contents
C10_OtherChangedFilesReindexed ==
  \A t \in Threads :
    (/\ pc[t] = "rf_return"
     /\ loc[t].result.status = "parser_raised"
     /\ loc[t].result.changed >= 2)
      => /\ loc[t].result.kept_old
         /\ loc[t].result.others_reindexed

\* C11: scanning the same exports again yields the same set of discoveries
\* (identifiers, tiers, tags and content), whatever the order of the list
C11_RescanSameDiscoveries ==
  [][discoveries # NotScanned => Range(discoveries') = Range(discoveries)]_vars

PasswordDiscoveries(device_id) ==
  { i \in DOMAIN discoveries :
      discoveries[i].data_type = "passwords" /\ discoveries[i].device_id = device_id }

C20_NoTierOneKeywordDiscovery ==
  \A i \in DOMAIN discoveries :
    discoveries[i].id[1] \in {"chat", "email", "browse", "search"}
      => discoveries[i].flames >= 2

\* C17: normalize_name is idempotent: normalising a name that is already the
\* result of normalize_name gives that same name back.
C17_NormalizeIdempotent ==
  normalized # NoCache => normalize_name(normalized[1]) = normalized[1]

\* C17 witness: a name with punctuation in front of a word, so that removing
\* the punctuation leaves a leading blank for the last strip to take away.
C17_PunctuationThenWord ==
  /\ raw_name = <<".", " ", "A", "b">>
  /\ normalized = Cached(<<"a", "b">>)

\* the device owners whose contacts hold a name of normalised form norm
OwnersListing(norm) ==
  { DEVICE_PREFIXES[d].owner : d \in { i \in DOMAIN contact_files :
      \E k \in DOMAIN contact_files[i] : NormOf(contact_files[i][k]) = norm } }

\* the normalised forms of the listed contact names that match no primary
\* participant
UnmatchedForms ==
  { NormOf(n) : n \in { m \in UNION { Range(contact_files[d]) : d \in DOMAIN contact_files } :
                          MatchOf(m) = None } }

SecondaryNodes(nodes, norm) ==
  { id \in DOMAIN nodes : nodes[id].type = "secondary" /\ NormOf(nodes[id].name) = norm }

\* exactly one shared_contact entry, of count 1
OneSharedContact(types) ==
  /\ Cardinality({ i \in DOMAIN types : IsSharedContact(types[i]) }) = 1
  /\ \A i \in DOMAIN types : IsSharedContact(types[i]) => types[i].count = 1

\* one secondary node for norm, linked to each owner, in the graph under
\* construction
PromotedInBuilder(norm) ==
  /\ Cardinality(SecondaryNodes(builder.g.nodes, norm)) = 1
  /\ \A id \in SecondaryNodes(builder.g.nodes, norm) : \A o \in OwnersListing(norm) :
        /\ EdgeKey(IdOf(o), id) \in DOMAIN builder.g.edges
        /\ OneSharedContact(builder.g.edges[EdgeKey(IdOf(o), id)].types)

\* the same, in the built graph
PromotedInNetwork(norm) ==
  /\ Cardinality(SecondaryNodes(network.nodes, norm)) = 1
  /\ \A id \in SecondaryNodes(network.nodes, norm) : \A o \in OwnersListing(norm) :
        \E e \in DOMAIN network.edges :
          /\ network.edges[e].key = EdgeKey(IdOf(o), id)
          /\ OneSharedContact(network.edges[e].types)

\* the contact step (steps 2 and 3 of build_network) has run to its end
ContactStepDone == builder.stage = "promote" /\ builder.order = <<>>

PromotionRule(norm) ==
  /\ ContactStepDone =>
        IF Cardinality(OwnersListing(norm)) >= 2
        THEN PromotedInBuilder(norm)
        ELSE SecondaryNodes(builder.g.nodes, norm) = {}
  /\ network.built /\ Cardinality(OwnersListing(norm)) >= 2 => PromotedInNetwork(norm)

\* C19: a contact name that matches no primary participant and is listed,
\* under one normalised form, by two or more device owners has exactly one
\* secondary node in the built graph, linked to each of those owners by an
\* edge with a shared_contact entry of count 1; a non-primary name listed by
\* one owner only has no secondary node when the contact step ends.
C19_SharedContactPromoted == \A norm \in UnmatchedForms : PromotionRule(norm)

\* C19 as the code has it: the same, for the names whose normalised form has
\* at least two characters; build_network skips the shorter ones.
C19_SharedContactPromotedFromTwoChars ==
  \A norm \in UnmatchedForms : Len(norm) >= 2 => PromotionRule(norm)

\* C19 witness: "John Smith" on one device and "john  smith." on another
\* give one secondary node in the built graph, linked to both owners.
C19_JohnSmithOnTwoDevices ==
  /\ network.built
  /\ JohnSmith \in Range(contact_files[2])
  /\ JohnSmithDot \in Range(contact_files[3])
  /\ JohnSmith \notin Range(contact_files[3])
  /\ PromotedInNetwork(NormOf(JohnSmith))

\* the line `- [timestamp] **sender**: body (source)` written from a record
WriteChatLine(rec) ==
  <<"-", " ", "[">> \o rec.timestamp \o <<"]", " ", "*", "*">> \o rec.sender
    \o <<"*", "*", ":", " ">> \o rec.body \o <<" ", "(">> \o rec.source_app \o <<")">>

\* C18: a record parsed from a chat line with a non-empty source, written
\* back as `- [timestamp] **sender**: body (source)` and parsed again, gives
\* the same timestamp, sender, body and source.
C18_ChatLineRoundTrip ==
  message # NoCache /\ message[1].source_app # <<>> =>
    ParseChatLine(WriteChatLine(message[1])) = message

\* C18 witness: a parsed line whose source follows the body without a blank,
\* so that the line written back differs from the line read.
C18_SourceWithoutBlank ==
  /\ message # NoCache
  /\ message[1].source_app = <<"a">>
  /\ message[1].body = <<"a">>
  /\ WriteChatLine(message[1]) \o <<"\n">> # chat_line
  /\ WriteChatLine(message[1]) # chat_line

\* the last call was get_device_data / get_discoveries
AnsweredDeviceData == request # NoCache /\ "device_id" \in DOMAIN request[1]
AnsweredDiscoveries == request # NoCache /\ "sort" \in DOMAIN request[1]

\* tier descending, then verified first, then the timestamp in direction dir
TierVerifiedThen(dir, a, b) ==
  \/ a.flames > b.flames
  \/ a.flames = b.flames /\ a.verified /\ ~b.verified
  \/ /\ a.flames = b.flames /\ a.verified = b.verified
     /\ IF dir = "asc" THEN TimestampAsc(a, b) ELSE TimestampDesc(a, b)

\* no row of the list is placed after a row it precedes
SortedByTier(rows, dir) ==
  \A i, j \in DOMAIN rows : i < j => ~TierVerifiedThen(dir, rows[j], rows[i])
SortedByTimestamp(rows, dir) ==
  \A i, j \in DOMAIN rows : i < j =>
    ~(IF dir = "asc" THEN TimestampAsc(rows[j], rows[i]) ELSE TimestampDesc(rows[j], rows[i]))

C14_PageMatchesTotal ==
  (pc["loop"] = "respond" /\ loc["loop"].result.kind = "device_data") =>
    LET r == loc["loop"].result
        offset == (r.page - 1) * r.per_page
        last == IF r.page * r.per_page < r.total THEN r.page * r.per_page ELSE r.total
    IN Len(r.records) = Max2(0, last - offset)

\* the calendar date of a timestamp
DateOf(ts) == SubSeq(Chars[ts], 1, 10)
OnDayInRange(row, date_from, date_to) ==
  /\ Len(Chars[row.timestamp]) >= 10
  /\ date_from # None => TextLeq(Chars[date_from], DateOf(row.timestamp))
  /\ date_to # None => TextLeq(DateOf(row.timestamp), Chars[date_to])

\* C15: get_device_data with date_from and date_to returns exactly the
\* records whose timestamp falls on a day from date_from to date_to, both
\* days included whole, whether or not the timestamp carries a UTC offset.
C15_DateRangeWholeDays ==
  (/\ AnsweredDeviceData
   /\ request[1].date_from # None
   /\ request[1].date_to # None) =>
    LET req == request[1]
        rows == RecordRows(db, _resolve_device_ids(merged_device_map, req.device_id),
                           req.category, 1)
    IN response[1].total =
         Cardinality({ i \in DOMAIN rows : OnDayInRange(rows[i], req.date_from, req.date_to) })

\* the records of category of one member extraction that match query, each
\* tagged with the extraction
RECURSIVE MemberMatches(_, _, _, _)
MemberMatches(dir, sub_ids, category, query) ==
  IF sub_ids = <<>> THEN <<>>
  ELSE LET own == _get_axiom_data(dir, Head(sub_ids), category, 1,
                                  MaxAxiomRows + 1, query).records
       IN [i \in DOMAIN own |-> [name |-> own[i].name, _extraction |-> Head(sub_ids)]]
          \o MemberMatches(dir, Tail(sub_ids), category, query)

\* C16: a query of a composite device for a category returns the page of the
\* concatenation of every member extraction's matching records, each tagged
\* with its extraction, and total is the sum of the members' matching records.
C16_MergedIsConcatenation ==
  (/\ AnsweredDeviceData
   /\ request[1].device_id = Composite
   /\ request[1].category # None) =>
    LET req == request[1]
        members == MemberMatches(axiom_dir, _resolve_device_ids(merged_device_map, req.device_id),
                                 req.category, req.query)
    IN /\ response[1].total = Len(members)
       /\ response[1].records = Page(members, req.page, req.per_page)

\* the primaries whose normalized name is norm, that list norm as an alias,
\* and whose every token is a substring of norm
NamedExactly(norm) == { i \in DOMAIN PRIMARY_PEOPLE : normalize_name(PRIMARY_PEOPLE[i].name) = norm }
NamedByAlias(norm) ==
  { i \in DOMAIN PRIMARY_PEOPLE :
      \E k \in DOMAIN NAME_ALIASES :
        /\ NAME_ALIASES[k].primary = normalize_name(PRIMARY_PEOPLE[i].name)
        /\ norm \in Range(NAME_ALIASES[k].aliases) }
EveryTokenIn(norm) ==
  { i \in DOMAIN PRIMARY_PEOPLE :
      \A tok \in Range(Split(normalize_name(PRIMARY_PEOPLE[i].name))) : IsSubstring(tok, norm) }
NamesOf(S) == { PRIMARY_PEOPLE[i].name : i \in S }

\* C23: match_primary resolves a name by an exact match on the normalized
\* primary names, else by the alias table, else by a partial match in which
\* every token of the primary's normalized name is a substring of the
\* normalized input; an input that is only a primary's last name resolves to
\* no primary.
C23_MatchOrder ==
  resolved # NoCache =>
    LET norm == normalize_name(raw_name)
        m == resolved[1]
    IN /\ IF NamedExactly(norm) # {} THEN m # None /\ m \in NamesOf(NamedExactly(norm))
          ELSE IF NamedByAlias(norm) # {} THEN m # None /\ m \in NamesOf(NamedByAlias(norm))
          ELSE IF norm \in LastNames THEN m = None
          ELSE IF EveryTokenIn(norm) # {} THEN m # None /\ m \in NamesOf(EveryTokenIn(norm))
          ELSE m = None
       /\ norm \in LastNames => m = None

\* C23 witness: "Tina Peterson" is no primary's name and no alias, and
\* resolves to Tina Peters because both tokens are substrings of it; "quinn",
\* the last name of two primaries, resolved to nobody in another run.
C23_PartialMatchBySubstring ==
  /\ resolved # NoCache /\ resolved[1] # None
  /\ resolved[1] = PRIMARY_PEOPLE[1].name
  /\ normalize_name(raw_name) = Chars["tina peterson"]

\* the edges of the graph under construction and of the built graph
EdgesBuilt == { builder.g.edges[k] : k \in DOMAIN builder.g.edges }
                 \cup { [types |-> network.edges[i].types, weight |-> network.edges[i].weight] :
                          i \in DOMAIN network.edges }

\* C24: every edge holds at most one contribution entry per contribution
\* type (shared_contact, chat): a contribution of a type already present on
\* the pair adds no second entry of that type.
C24_OneEntryPerType ==
  \A e \in EdgesBuilt : \A i, j \in DOMAIN e.types :
    e.types[i].type = e.types[j].type => i = j

\* the nodes of the graph under construction and of the built graph
NodesBuilt == { builder.g.nodes[k] : k \in DOMAIN builder.g.nodes }
                 \cup { network.nodes[k] : k \in DOMAIN network.nodes }
EdgeKeysBuilt == DOMAIN builder.g.edges \cup { network.edges[i].key : i \in DOMAIN network.edges }

\* C28: no identity appears twice in the graph: no secondary node carries a
\* name that match_primary resolves to a primary participant, and no edge
\* connects a node to itself.
C28_NoDuplicateIdentity ==
  /\ \A n \in NodesBuilt : n.type = "secondary" => MatchOf(n.name) = None
  /\ \A key \in EdgeKeysBuilt : Cardinality(key) = 2

\* an unverified discovery of the chat or location data type that has a date
Dated(d) == ~d.verified /\ d.data_type \in {"chats", "locations"} /\ Truthy(d.timestamp)

IsHeader(line) == AfterLiteral(line, Chars["### Chat: "]) # NoCache
IsMessage(line) == ParseChatLine(line) # NoCache

HeadersUpTo(i) == Cardinality({ j \in 1..i : IsHeader(chat_file[j]) })
\* the lines that match the message grammar before any header
Headless == { i \in DOMAIN chat_file : IsMessage(chat_file[i]) /\ HeadersUpTo(i) = 0 }
\* the number of the thread line i belongs to: threads are numbered in the
\* order they are opened, the implicit thread first
ThreadOf(i) == HeadersUpTo(i) + (IF Headless # {} THEN 1 ELSE 0)

\* the messages of the lines of thread n, in file order
LinesOfThread(n) ==
  Concat([i \in DOMAIN chat_file |->
            IF ThreadOf(i) = n THEN ParseChatLine(chat_file[i]) ELSE <<>>])

StoredMessages(n) ==
  SelectSeq(chat_threads[1].chat_messages, LAMBDA m : m.thread_num = n)

WithoutThread(m) ==
  [timestamp |-> m.timestamp, sender |-> m.sender, body |-> m.body,
   source_app |-> m.source_app]

RECURSIVE SumMessageCounts(_)
SumMessageCounts(rows) ==
  IF rows = <<>> THEN 0 ELSE Head(rows).message_count + SumMessageCounts(Tail(rows))

\* every message line is in exactly the thread its position gives it, no
\* thread is empty, thread numbers are distinct, message_count counts the
\* thread's messages, and the counts add up to the chat records of the file
ThreadsPartitionMessages ==
  LET rows == chat_threads[1].chat_threads IN
  /\ \A n \in 1..(Len(chat_file) + 1) :
       /\ [i \in DOMAIN StoredMessages(n) |-> WithoutThread(StoredMessages(n)[i])]
            = LinesOfThread(n)
       /\ (LinesOfThread(n) # <<>>) <=> (\E k \in DOMAIN rows : rows[k].thread_num = n)
  /\ \A k \in DOMAIN rows :
       /\ rows[k].message_count > 0
       /\ rows[k].message_count = Len(StoredMessages(rows[k].thread_num))
       /\ \A j \in DOMAIN rows : j # k => rows[j].thread_num # rows[k].thread_num
  /\ SumMessageCounts(rows) = Len(_parse_chats(chat_file))
  /\ Len(chat_threads[1].chat_messages) = Len(_parse_chats(chat_file))

\* the row of the implicit thread, when the file has one
ImplicitRows ==
  { r \in Range(chat_threads[1].chat_threads) : Headless # {} /\ r.thread_num = 1 }
FirstHeadless == ParseChatLine(chat_file[MinOf(Headless)])[1]

\* C22: every line matching the message grammar is assigned to exactly one
\* thread, that of the most recent `### Chat:` header or, before any header,
\* an implicit thread whose source is the first message's extracted source
\* tag; no empty thread is emitted, thread numbers are distinct,
\* message_count is the number of the thread's messages and the counts sum
\* to the number of chat records parsed from the same file.
C22_ImplicitSourceIsFirstTag ==
  chat_threads # NoCache =>
    /\ ThreadsPartitionMessages
    /\ \A r \in ImplicitRows : r.source_app = FirstHeadless.source_app

\* C22 amended: as above, with the implicit thread's source being the first
\* message's source tag, or 'Unknown' when that message carries none.
C22_ImplicitSourceOrUnknown ==
  chat_threads # NoCache =>
    /\ ThreadsPartitionMessages
    /\ \A r \in ImplicitRows :
         r.source_app = IF FirstHeadless.source_app # <<>>
                        THEN FirstHeadless.source_app ELSE Chars["Unknown"]

\* C22 witness: a message without a source tag before any header, a header
\* without messages, and a header with one message: threads 1 and 3 are
\* stored, thread 1 with source 'Unknown'.
C22_ImplicitThenSkippedHeader ==
  /\ chat_threads # NoCache
  /\ chat_file = << Chars["- [2021-08-06T10:05:00] **Wendi**: hi"] \o <<"\n">>,
                    Chars["### Chat: Signal"] \o <<"\n">>,
                    Chars["### Chat: SMS"] \o <<"\n">>,
                    Chars["- [2021-08-06T10:07:00] **Joy**: ok (SMS)"] \o <<"\n">> >>
  /\ Len(chat_threads[1].chat_threads) = 2
  /\ chat_threads[1].chat_threads[1].thread_num = 1
  /\ chat_threads[1].chat_threads[1].source_app = Chars["Unknown"]
  /\ chat_threads[1].chat_threads[2].thread_num = 3
  /\ chat_threads[1].chat_threads[2].source_app = Chars["SMS"]


(***************************************************************************)
(* C25: chat threads after a refresh                                       *)
(***************************************************************************)
\* C25: after refresh has re-indexed a changed chats file, the stored chat
\* threads and messages of the device are those of the new file, and their
\* message counts sum to the number of chat records the device holds.
C25_ThreadsFollowRefresh ==
  (chat_index.changed = 1 /\ chat_index.mtime = chat_mtime) =>
    /\ chat_threads = Cached(_index_chat_threads(chat_file))
    /\ SumMessageCounts(chat_threads[1].chat_threads) = Len(chat_records)


(***************************************************************************)
(* C26: change detection                                                   *)
(***************************************************************************)
\* C26: no modification of an export file is lost: the modification time
\* recorded for a file belongs to the content that was parsed, so whenever
\* _detect_changes finds a file unchanged (its file_index row holds the
\* file's st_mtime) the file's partition is the parse of its content.
C26_NoModificationLost ==
  \A f \in FileIds :
    (db.file_index[f] # NoRow /\ db.file_index[f] = fs[f].mtime)
      => db.records[f] = parser(fs[f].lines)


(***************************************************************************)
(* C27: the last-indexed time                                              *)
(***************************************************************************)
\* get_stats()["last_indexed"]: the cached value, or the value a rebuild of
\* an empty cache would store
LastIndexedReported ==
  IF stats_cache = NoCache THEN last_index_time ELSE stats_cache[1].last_indexed

LastIndexedNeverDecreases ==
  [][LastIndexedReported' >= LastIndexedReported]_vars


(***************************************************************************)
(* C30: the email parsers                                                  *)
(***************************************************************************)
\* the positions of the header lines, in file order
HeaderPositions ==
  SelectSeq([i \in DOMAIN email_lines |-> i], LAMBDA i : IsEmailHeader(email_lines[i]))

\* the addresses on the line directly after the header at position i: those
\* of a From/To line, empty when the line is absent or is no From/To line
OwnAddresses(i) ==
  IF i + 1 <= Len(email_lines) /\ FromTo(email_lines[i + 1]) # NoCache
  THEN FromTo(email_lines[i + 1])[1] ELSE NoAddresses

AddressesOf(rec, parsed_by) ==
  IF parsed_by = "db" THEN [from_addr |-> rec.from_addr, to_addr |-> rec.to_addr]
  ELSE [from_addr |-> rec.from, to_addr |-> rec.to]

NeverRaises == ~email_records[1].raised
OneRecordPerHeader ==
  /\ Len(email_records[1].emails) = Len(HeaderPositions)
  /\ \A k \in DOMAIN email_records[1].emails :
       k \in DOMAIN HeaderPositions =>
         /\ email_records[1].emails[k].timestamp
              = HeaderParts(email_lines[HeaderPositions[k]]).timestamp
         /\ email_records[1].emails[k].subject
              = HeaderParts(email_lines[HeaderPositions[k]]).subject
AddressesFromOwnHeader ==
  \A k \in DOMAIN email_records[1].emails :
    k \in DOMAIN HeaderPositions =>
      AddressesOf(email_records[1].emails[k], email_records[1].parser)
        = OwnAddresses(HeaderPositions[k])

\* C30: the email parser never raises; each header line (`### ` with an em
\* dash) yields exactly one record, also when it is the last line of the
\* file; each record's from/to addresses are those of the From/To line
\* directly after its own header, empty when that line is absent or
\* malformed, never those of a previously parsed email.
C30_OneRecordPerHeader ==
  email_records # NoCache =>
    /\ NeverRaises
    /\ OneRecordPerHeader
    /\ AddressesFromOwnHeader


(***************************************************************************)
(* C29: sessions                                                           *)
(***************************************************************************)
\* C29: validate_session returns a user only for a token that a successful
\* login of that user issued, that no logout revoked, that has not passed
\* its expiry and whose user is active; and never for a token that was
\* issued to the user before a deactivate_user or reset_password for that
\* user, a token of a login in progress during it included.
C29_RevokedTokenNeverValidates ==
  auth # NoCache /\ auth.validated.user # None =>
    /\ auth.validated.was_issued
    /\ ~auth.validated.was_revoked
    /\ auth.validated.expires_at >= auth.validated.at
    /\ auth.validated.was_active
    /\ ~auth.validated.was_barred

====
